---- MODULE Spec2Model ----
(***************************************************************************)
(* State-machine model of the status-aggregation and inspection core of    *)
(* the cv_cnc_manufacturing package:                                       *)
(*   - computer_vision: QualityMeasurement, QualityInspector scoring and   *)
(*     classification;                                                     *)
(*   - cnc: MachineStatus, MTConnect parsing, CNCController, CNCManager;   *)
(*   - api: the WebSocket event broadcaster of ManufacturingAPI.           *)
(*                                                                         *)
(* Numbers. Python floats are modelled in fixed point: severities and      *)
(* confidences are in tenths (0.9 is 9), scores in thousandths (0.95 is    *)
(* 950), so that severity * confidence * 0.2 is the integer                *)
(* severity * confidence * 2 in thousandths. Measurement values and        *)
(* tolerance bounds are whole numbers.                                     *)
(***************************************************************************)
EXTENDS Integers, Sequences, FiniteSets, TLC

\* ------------------------------------------------------------------ bounds
\* Lists handed to the scoring functions hold at most this many entries.
MaxDefects == 4
MaxMeasurements == 2
\* A /current document holds at most this many data items.
MaxItems == 3
\* CNCManager.max_history_size as configured (1000 when not configured).
MaxHistorySize == 3
\* Polls made by all monitoring loops together.
MaxTicks == 4
\* Times one controller is handed to add_controller with success.
MaxCallbacks == 2
\* Escalation tasks counted per controller; further ones are not counted.
MaxEscalations == 1
\* Status callbacks registered on one controller.
MaxRegistered == 3
\* Monitoring tasks one controller creates in a run.
MaxTasks == 3
\* OPCUAClient objects one controller constructs in a run.
MaxSessions == 3

\* ------------------------------------------------------ program constants
\* score = 1.0, in thousandths
ScoreOne == 1000
\* penalty = defect.severity * defect.confidence * 0.2 (0.2 in tenths)
DefectPenaltyWeight == 2
\* penalty = 0.1 * measurement.confidence (0.1 in tenths)
MeasurementPenaltyWeight == 1
\* d.severity > 0.7, in tenths
CriticalSeverity == 7
\* overall_score >= 0.95 / 0.8 / 0.6, in thousandths
PassThreshold == 950
ReviewThreshold == 800
UncertainThreshold == 600

\* Python's None for an Optional[float], and a present value.
None == <<>>
Some(v) == <<v>>

Max(a, b) == IF a >= b THEN a ELSE b
Min(a, b) == IF a <= b THEN a ELSE b

VARIABLES
    \* ---- QualityInspector: one run of the score/classify stages
    defects,        \* List[DefectDetection] built by the detection stage
    measurements,   \* List[QualityMeasurement] built by the measurement stage
    report,         \* the InspectionReport of this run, or None
    inspPhase,      \* "collect" while the lists are built, "reported" after
    \* ---- MTConnectController.get_status called on its own
    agentResponse,  \* the agent's answer being read, or None
    readResponse,   \* history: the answer the last call's result came from
    statusResult,   \* the OperationResult of the last call, or None
    \* ---- CNCManager and its controllers
    controllers,     \* CNCManager.controllers: its keys in insertion order
    status_history,  \* CNCManager.status_history: machine id -> list
    ctrlState,       \* controller.state (ComponentState)
    client,          \* OPCUAController.client is set
    current_status,  \* controller.current_status, or None
    event_callbacks, \* controller._event_callbacks
    monitoring,      \* controller._monitoring_task is running
    escalations,     \* emergency_stop tasks created by safety_context, pending
    clock,           \* datetime.now(), counted in polls
    delivered,       \* history: the statuses handed to _on_status_update
                     \* for a machine since its buffer was created
    estopCall,       \* the last emergency_stop_all call, or None
    \* ---- ManufacturingAPI: the event broadcaster
    websocket_connections, \* ManufacturingAPI.websocket_connections
    event_subscribers,     \* ManufacturingAPI.event_subscribers
    wsState,               \* each websocket and its websocket_events handler
    lastBroadcast,         \* the _broadcast_event call that just returned,
                           \* or None
    \* ---- monitoring tasks and shutdown, one await at a time
    loopPc,          \* where each controller's _monitor_status task stands
    shutdown_event,  \* controller._shutdown_event.is_set()
    cancelRequested, \* task.cancel() was called and not yet delivered
    lastPoll,        \* how the task's last get_status ended
    ctrlShutdown,    \* the controller.shutdown() call in progress or just done
    mgrShutdown,     \* the CNCManager.shutdown() call in progress or just done
    managerState,    \* CNCManager.state
    orphanLoops,     \* machine ids whose earlier controller, overwritten in
                     \* CNCManager.controllers, still runs its task
    \* ---- CNCManager: calls seen from the caller
    addCall,         \* the add_controller call that just returned, while
                     \* nothing but add_controller calls came after it
    lastGood,        \* history: the status of the most recent successful
                     \* poll of the controller known under a machine id
    statusCall,      \* what get_all_status returned, while no other call
                     \* or tick has come after it; else None
    \* ---- QualityInspector.inspect_part, one stage at a time
    inspectorState,  \* QualityInspector.state
    pipePc,          \* the stage the inspect_part call is at
    stagesRun,       \* history: the stages of this call and how they ended
    pipeResult,      \* the OperationResult of the call, or None
    \* ---- controllers driven directly by their caller
    lastOp,          \* the controller call (or task step) that just ended
    \* ---- one QualityMeasurement from its construction on
    qmArgs,          \* the arguments the constructor was called with, or None
    qm,              \* the QualityMeasurement object, or None
    qmScored,        \* the score and result of a report on it alone, or None
    \* ---- ManufacturingAPI: one _broadcast_event call, one await at a time
    bc,              \* the call in progress or just returned, or None
    \* ---- one controller's _monitor_status with its status callbacks
    cbRegistered,    \* CNCController._event_callbacks
    cbPc,            \* where the loop stands: "sleep" or "get_status"
    cbPoll,          \* the result of the last get_status, or None
    cbCalls,         \* the callback calls made on the last tick, in order
    cbStatus,        \* CNCController.current_status of that controller
    \* ---- one controller's monitoring tasks under concurrent callers
    taskPc,          \* each _monitor_status task: where it stands
    taskCancel,      \* the tasks task.cancel() was called on
    monitoring_task, \* CNCController._monitoring_task: a task, or None
    stopAwait,       \* the task a suspended stop_monitoring call awaits, or None
    shutdownCall,    \* the controller's shutdown(): "none", "gathering", "returned"
    lastStart,       \* the start_monitoring call that just returned, or None
    \* ---- CNCManager with several controller objects for one machine id
    registered,      \* CNCManager.controllers[machine_id]: an object, or None
    objCallbacks,    \* each controller object's _event_callbacks
    objLoop,         \* the controller objects whose monitoring task runs
    objStatus,       \* each controller object's current_status
    ownHistory,      \* CNCManager.status_history[machine_id], or None (no key)
    pollCount,       \* the polls answered so far
    lastPollBy,      \* the poll that just returned, or None
    \* ---- QualityInspector._perform_measurements, one computation at a time
    pmPc,            \* "idle", "roughness", "brightness", "returned", "reported"
    pmInput,         \* what the image gives and which computation raises
    pmMeasurements,  \* the local list `measurements`
    pmResult,        \* what inspect_part returns for this image, or None
    \* ---- connect() called again on a controller, with its sessions counted
    connState,       \* each variant's component state
    connClient,      \* OPCUAController.client: a client object, or None
    connOpen,        \* the client objects whose session with the server is open
    connLoop,        \* the variants whose monitoring task runs
    lastConnect,     \* the connect() call that just returned, or None
    \* ---- the inspector and its detector through their component states
    qiState,         \* QualityInspector.state
    detState,        \* QualityInspector.defect_detector.state
    qiStopped,       \* history: emergency_stop() or shutdown() was called on the inspector
    qiCall           \* the inspect_part call that returned last, or None

inspVars == <<defects, measurements, report, inspPhase>>
parseVars == <<agentResponse, readResponse, statusResult>>
cncVars == <<controllers, status_history, ctrlState, client, current_status,
            event_callbacks, monitoring, escalations, clock, delivered, estopCall>>

apiVars == <<websocket_connections, event_subscribers, wsState, lastBroadcast>>

loopVars == <<loopPc, shutdown_event, cancelRequested, lastPoll, ctrlShutdown,
             mgrShutdown, managerState, orphanLoops>>

mgrVars == <<addCall, lastGood, statusCall>>

pipeVars == <<inspectorState, pipePc, stagesRun, pipeResult>>

opVars == <<lastOp>>

measVars == <<qmArgs, qm, qmScored>>

bcVars == <<bc>>

cbVars == <<cbRegistered, cbPc, cbPoll, cbCalls, cbStatus>>

taskVars == <<taskPc, taskCancel, monitoring_task, stopAwait, shutdownCall,
              lastStart>>

ownVars == <<registered, objCallbacks, objLoop, objStatus, ownHistory, pollCount,
             lastPollBy>>

pmVars == <<pmPc, pmInput, pmMeasurements, pmResult>>

connVars == <<connState, connClient, connOpen, connLoop, lastConnect>>

readyVars == <<qiState, detState, qiStopped, qiCall>>

vars == <<inspVars, parseVars, cncVars, apiVars, loopVars, mgrVars, pipeVars,
          opVars, measVars, bcVars, cbVars, taskVars, ownVars, pmVars, connVars, readyVars>>

\* =====================================================================
\* computer_vision: data types
\* =====================================================================

\* The (severity, confidence) pairs a DefectDetection is built with, in
\* tenths. detect_defects produces non-negative values (area / 5000 and
\* area / 1000 of a contour area > 100); <<30, 10>> is a severity of 3.0,
\* beyond the documented [0, 1], kept to drive the raw score below zero.
DefectKinds ==
    { <<5, 5>>, <<5, 10>>, <<7, 10>>, <<8, 3>>, <<9, 9>>, <<30, 10>> }

DefectDetection(sev, conf) == [severity |-> sev, confidence |-> conf]

\* mutant: __post_init__ leaves the constructor argument alone
PostInitWithinTolerance_KeepArgument(value, tmin, tmax, wt) == wt

\* QualityMeasurement.__post_init__: within_tolerance is recomputed only
\* when both bounds are given; otherwise the constructor argument stays.
PostInitWithinTolerance(value, tmin, tmax, wt) ==
    IF tmin # None /\ tmax # None
    THEN tmin[1] <= value /\ value <= tmax[1]
    ELSE wt

QualityMeasurement(mtype, value, tmin, tmax, wt, conf) ==
    [ measurement_type |-> mtype,
      value            |-> value,
      tolerance_min    |-> tmin,
      tolerance_max    |-> tmax,
      within_tolerance |-> PostInitWithinTolerance(value, tmin, tmax, wt),
      confidence       |-> conf ]

\* The argument tuples <<type, value, tolerance_min, tolerance_max,
\* within_tolerance, confidence>> QualityMeasurement is built with. The first
\* two are those of _perform_measurements (surface roughness against [0, 50]
\* with confidence 0.8, brightness against [80, 200] with confidence 0.9,
\* within_tolerance left at its default True); the third is a measurement of
\* low confidence, whose penalty leaves the score in the PASS band.
MeasurementKinds ==
    { <<"surface_roughness", 20, Some(0), Some(50), TRUE, 8>>,
      <<"brightness", 250, Some(80), Some(200), TRUE, 9>>,
      <<"dimension", 12, Some(10), Some(11), TRUE, 5>> }

\* =====================================================================
\* computer_vision: QualityInspector scoring and classification
\* =====================================================================

RECURSIVE PenalizeDefects_Assign(_, _)
\* mutant: "score = 1.0 - penalty" in place of "score -= penalty"
PenalizeDefects_Assign(score, ds) ==
    IF ds = <<>> THEN score
    ELSE PenalizeDefects_Assign(
             ScoreOne - Head(ds).severity * Head(ds).confidence * DefectPenaltyWeight,
             Tail(ds))

RECURSIVE PenalizeDefects(_, _)
\* for defect in defects: score -= severity * confidence * 0.2
PenalizeDefects(score, ds) ==
    IF ds = <<>> THEN score
    ELSE PenalizeDefects(
             score - Head(ds).severity * Head(ds).confidence * DefectPenaltyWeight,
             Tail(ds))

RECURSIVE PenalizeMeasurements_All(_, _)
\* mutant: the "if not measurement.within_tolerance" test is dropped
PenalizeMeasurements_All(score, ms) ==
    IF ms = <<>> THEN score
    ELSE PenalizeMeasurements_All(
             score - MeasurementPenaltyWeight * Head(ms).confidence * 10,
             Tail(ms))

RECURSIVE PenalizeMeasurements(_, _)
\* for measurement in measurements: if not within_tolerance:
\*     score -= 0.1 * confidence      (tenths * tenths * 10 = thousandths)
PenalizeMeasurements(score, ms) ==
    IF ms = <<>> THEN score
    ELSE PenalizeMeasurements(
             IF ~Head(ms).within_tolerance
             THEN score - MeasurementPenaltyWeight * Head(ms).confidence * 10
             ELSE score,
             Tail(ms))

\* mutant: the score is clamped to the pass threshold, not to 1.0
CalculateQualityScore_StartAtThreshold(ds, ms) ==
    Max(0, Min(PassThreshold, PenalizeMeasurements(PenalizeDefects(ScoreOne, ds), ms)))

\* QualityInspector._calculate_quality_score
CalculateQualityScore(ds, ms) ==
    Max(0, Min(ScoreOne, PenalizeMeasurements(PenalizeDefects(ScoreOne, ds), ms)))

\* mutant: the critical-defect check is dropped
DetermineInspectionResult_NoCritical(overall_score, ds, ms) ==
    LET out_of_tolerance == SelectSeq(ms, LAMBDA m : ~m.within_tolerance)
    IN  IF out_of_tolerance # <<>> THEN "FAIL"
        ELSE IF overall_score >= PassThreshold THEN "PASS"
        ELSE IF overall_score >= ReviewThreshold THEN "NEEDS_REVIEW"
        ELSE IF overall_score >= UncertainThreshold THEN "UNCERTAIN"
        ELSE "FAIL"

\* mutant: the out-of-tolerance check is dropped
DetermineInspectionResult_NoTolerance(overall_score, ds, ms) ==
    LET critical_defects == SelectSeq(ds, LAMBDA d : d.severity > CriticalSeverity)
    IN  IF critical_defects # <<>> THEN "FAIL"
        ELSE IF overall_score >= PassThreshold THEN "PASS"
        ELSE IF overall_score >= ReviewThreshold THEN "NEEDS_REVIEW"
        ELSE IF overall_score >= UncertainThreshold THEN "UNCERTAIN"
        ELSE "FAIL"

\* mutant: "overall_score > 0.95" in place of "overall_score >= 0.95"
DetermineInspectionResult_StrictPass(overall_score, ds, ms) ==
    LET critical_defects == SelectSeq(ds, LAMBDA d : d.severity > CriticalSeverity)
        out_of_tolerance == SelectSeq(ms, LAMBDA m : ~m.within_tolerance)
    IN  IF critical_defects # <<>> THEN "FAIL"
        ELSE IF out_of_tolerance # <<>> THEN "FAIL"
        ELSE IF overall_score > PassThreshold THEN "PASS"
        ELSE IF overall_score >= ReviewThreshold THEN "NEEDS_REVIEW"
        ELSE IF overall_score >= UncertainThreshold THEN "UNCERTAIN"
        ELSE "FAIL"

\* QualityInspector._determine_inspection_result
DetermineInspectionResult(overall_score, ds, ms) ==
    LET critical_defects == SelectSeq(ds, LAMBDA d : d.severity > CriticalSeverity)
        out_of_tolerance == SelectSeq(ms, LAMBDA m : ~m.within_tolerance)
    IN  IF critical_defects # <<>> THEN "FAIL"
        ELSE IF out_of_tolerance # <<>> THEN "FAIL"
        ELSE IF overall_score >= PassThreshold THEN "PASS"
        ELSE IF overall_score >= ReviewThreshold THEN "NEEDS_REVIEW"
        ELSE IF overall_score >= UncertainThreshold THEN "UNCERTAIN"
        ELSE "FAIL"

\* The InspectionReport inspect_part builds from the two lists.
InspectionReport(ds, ms) ==
    LET overall_score == CalculateQualityScore(ds, ms)
    IN  [ inspection_result |-> DetermineInspectionResult(overall_score, ds, ms),
          overall_score     |-> overall_score,
          defects           |-> ds,
          measurements      |-> ms ]

\* ---- actions: one run of the inspector's stages

InitInspect ==
    /\ defects = <<>>
    /\ measurements = <<>>
    /\ report = None
    /\ inspPhase = "collect"

\* detect_defects: defects.append(DefectDetection(...))
AppendDefect ==
    /\ inspPhase = "collect"
    /\ Len(defects) < MaxDefects
    /\ \E k \in DefectKinds :
           defects' = Append(defects, DefectDetection(k[1], k[2]))
    /\ UNCHANGED <<measurements, report, inspPhase>>

\* _perform_measurements: measurements.append(QualityMeasurement(...))
AppendMeasurement ==
    /\ inspPhase = "collect"
    /\ Len(measurements) < MaxMeasurements
    /\ \E k \in MeasurementKinds :
           measurements' = Append(measurements,
               QualityMeasurement(k[1], k[2], k[3], k[4], k[5], k[6]))
    /\ UNCHANGED <<defects, report, inspPhase>>

\* inspect_part: score, classify and build the report
ScoreAndClassify ==
    /\ inspPhase = "collect"
    /\ report' = Some(InspectionReport(defects, measurements))
    /\ inspPhase' = "reported"
    /\ UNCHANGED <<defects, measurements>>

\* the next inspect_part call starts from empty lists
NextInspection ==
    /\ inspPhase = "reported"
    /\ defects' = <<>>
    /\ measurements' = <<>>
    /\ report' = None
    /\ inspPhase' = "collect"

NextInspect ==
    \/ AppendDefect
    \/ AppendMeasurement
    \/ ScoreAndClassify
    \/ NextInspection

\* ---- inspect_part as a whole: the stages and their early returns

\* OperationResult.success_result / error_result
SuccessResult(result) ==
    [success |-> TRUE, result |-> Some(result), error |-> None, error_code |-> None]
\* mutant: the error result also carries a result value
ErrorResult_WithResult(error_code) ==
    [success |-> FALSE, result |-> Some(FALSE), error |-> Some("error"),
     error_code |-> Some(error_code)]
ErrorResult(error_code) ==
    [success |-> FALSE, result |-> None, error |-> Some("error"),
     error_code |-> Some(error_code)]

\* How a stage can end. ImageProcessor.preprocess_image and
\* DefectDetector.detect_defects catch every exception and return an
\* error result (detect_defects also when the detector is not READY);
\* _perform_measurements logs its exception and returns the list it has;
\* scoring and classifying are plain arithmetic.
StageOutcomes(stage) ==
    IF stage \in {"preprocess", "detect"} THEN {"ok", "fail"} ELSE {"ok"}

\* mutant: the stage's result is not looked at
AfterStage_Continue(stage, o) ==
    CASE stage = "preprocess" -> "detect"
      [] stage = "detect"     -> "measure"
      [] stage = "measure"    -> "score"
      [] OTHER                -> "returned"

\* inspect_part after a stage: `if not preprocess_result.success: return`,
\* `if not defect_result.success: return`, else the next stage.
AfterStage(stage, o) ==
    IF o # "ok" THEN "returned"
    ELSE CASE stage = "preprocess" -> "detect"
           [] stage = "detect"     -> "measure"
           [] stage = "measure"    -> "score"
           [] OTHER                -> "returned"

\* The error result inspect_part returns for a failed stage.
StageFailure(stage) ==
    IF stage = "preprocess" THEN ErrorResult("PREPROCESSING_FAILED")
    ELSE ErrorResult("DEFECT_DETECTION_FAILED")

InitPipeline ==
    /\ inspectorState = "UNINITIALIZED"
    /\ pipePc = "idle"
    /\ stagesRun = <<>>
    /\ pipeResult = None

\* QualityInspector.initialize() succeeds
InitializeInspector ==
    /\ pipePc \in {"idle", "returned"}
    /\ inspectorState = "UNINITIALIZED"
    /\ inspectorState' = "READY"
    /\ UNCHANGED <<inspVars, pipePc, stagesRun, pipeResult>>

\* inspect_part is called: the state check, then the first stage
InspectPart ==
    /\ pipePc \in {"idle", "returned"}
    /\ defects' = <<>>
    /\ measurements' = <<>>
    /\ report' = None
    /\ inspPhase' = "collect"
    /\ stagesRun' = <<>>
    /\ IF inspectorState # "READY"
       THEN /\ pipePc' = "returned"
            /\ pipeResult' = Some(ErrorResult("COMPONENT_NOT_READY"))
       ELSE /\ pipePc' = "preprocess"
            /\ pipeResult' = None
    /\ UNCHANGED inspectorState

\* await self.image_processor.preprocess_image(image) returns
PreprocessReturns ==
    /\ pipePc = "preprocess"
    /\ \E o \in StageOutcomes("preprocess") :
         /\ stagesRun' = Append(stagesRun, [stage |-> "preprocess", outcome |-> o])
         /\ pipePc' = AfterStage("preprocess", o)
         /\ pipeResult' = IF pipePc' = "returned"
                          THEN Some(StageFailure("preprocess")) ELSE None
    /\ UNCHANGED <<inspVars, inspectorState>>

\* detect_defects finds one more defect
DetectAppends ==
    /\ pipePc = "detect"
    /\ AppendDefect
    /\ UNCHANGED pipeVars

\* await self.defect_detector.detect_defects(processed_image) returns; a
\* failing call hands no defects over
DetectReturns ==
    /\ pipePc = "detect"
    /\ \E o \in StageOutcomes("detect") :
         /\ stagesRun' = Append(stagesRun, [stage |-> "detect", outcome |-> o])
         /\ pipePc' = AfterStage("detect", o)
         /\ pipeResult' = IF pipePc' = "returned"
                          THEN Some(StageFailure("detect")) ELSE None
         /\ defects' = IF o = "ok" THEN defects ELSE <<>>
    /\ UNCHANGED <<measurements, report, inspPhase, inspectorState>>

\* _perform_measurements takes one more measurement
MeasureAppends ==
    /\ pipePc = "measure"
    /\ AppendMeasurement
    /\ UNCHANGED pipeVars

\* await self._perform_measurements(processed_image) returns its list
MeasureReturns ==
    /\ pipePc = "measure"
    /\ \E o \in StageOutcomes("measure") :
         /\ stagesRun' = Append(stagesRun, [stage |-> "measure", outcome |-> o])
         /\ pipePc' = AfterStage("measure", o)
    /\ UNCHANGED <<inspVars, inspectorState, pipeResult>>

\* the score, the classification, the report and the success result
ScoreReturns ==
    /\ pipePc = "score"
    /\ ScoreAndClassify
    /\ \E o \in StageOutcomes("score") :
         /\ stagesRun' = Append(stagesRun, [stage |-> "score", outcome |-> o])
         /\ pipePc' = AfterStage("score", o)
    /\ pipeResult' = Some(SuccessResult(report'[1]))
    /\ UNCHANGED inspectorState

NextPipeline ==
    \/ InitializeInspector
    \/ InspectPart
    \/ PreprocessReturns
    \/ DetectAppends
    \/ DetectReturns
    \/ MeasureAppends
    \/ MeasureReturns
    \/ ScoreReturns

\* =====================================================================
\* computer_vision: _perform_measurements, one computation at a time,
\* inside an inspect_part call whose earlier stages succeeded
\* =====================================================================

\* What the image gives (roughness against [0, 50], brightness against
\* [80, 200]), the defects detection handed over, and the computation
\* that raises, if one does.
PerformInputs ==
    [ roughness  : {20, 60},
      brightness : {50, 150, 250},
      defects    : {<<>>, <<DefectDetection(3, 5)>>},
      raising    : {"none", "cvtColor", "roughness", "brightness"} ]

InitPerform ==
    /\ pmPc = "idle"
    /\ pmInput = None
    /\ pmMeasurements = <<>>
    /\ pmResult = None

\* _perform_measurements is entered: measurements = []
PerformMeasurementsBegin ==
    /\ pmPc \in {"idle", "reported"}
    /\ \E input \in PerformInputs : pmInput' = Some(input)
    /\ pmMeasurements' = <<>>
    /\ pmResult' = None
    /\ pmPc' = "roughness"

\* the grey image and the roughness measurement; an exception leaves the
\* try block for the except clause, after which the list is returned
PerformRoughness ==
    /\ pmPc = "roughness"
    /\ IF pmInput[1].raising \in {"cvtColor", "roughness"}
       THEN /\ pmPc' = "returned"
            /\ UNCHANGED pmMeasurements
       ELSE /\ pmMeasurements' =
                   Append(pmMeasurements,
                          QualityMeasurement("surface_roughness",
                              pmInput[1].roughness, Some(0), Some(50), TRUE, 8))
            /\ pmPc' = "brightness"
    /\ UNCHANGED <<pmInput, pmResult>>

\* the brightness measurement, in the same try block
PerformBrightness ==
    /\ pmPc = "brightness"
    /\ IF pmInput[1].raising = "brightness"
       THEN UNCHANGED pmMeasurements
       ELSE pmMeasurements' =
                Append(pmMeasurements,
                       QualityMeasurement("brightness", pmInput[1].brightness,
                                          Some(80), Some(200), TRUE, 9))
    /\ pmPc' = "returned"
    /\ UNCHANGED <<pmInput, pmResult>>

\* inspect_part goes on with the returned list: score, classification,
\* report, success result
PerformReport ==
    /\ pmPc = "returned"
    /\ pmResult' = Some(SuccessResult(
                         InspectionReport(pmInput[1].defects, pmMeasurements)))
    /\ pmPc' = "reported"
    /\ UNCHANGED <<pmInput, pmMeasurements>>

NextPerform ==
    \/ PerformMeasurementsBegin
    \/ PerformRoughness
    \/ PerformBrightness
    \/ PerformReport

\* =====================================================================
\* computer_vision: one QualityMeasurement, constructed with arguments of
\* the caller's choice and then scored
\* =====================================================================

\* Constructor arguments: values around the bounds 80 and 200, either
\* bound given or not, either within_tolerance argument, two confidences.
MeasuredValues == {50, 80, 150, 200, 250}
ToleranceMins == {None, Some(80)}
ToleranceMaxs == {None, Some(200)}
Confidences == {5, 9}

InitMeasure ==
    /\ qmArgs = None
    /\ qm = None
    /\ qmScored = None

\* QualityMeasurement(...): the dataclass __init__ and __post_init__
ConstructMeasurement ==
    /\ qm = None
    /\ \E value \in MeasuredValues, tmin \in ToleranceMins,
          tmax \in ToleranceMaxs, wt \in BOOLEAN, conf \in Confidences :
         /\ qmArgs' = Some([value |-> value, tolerance_min |-> tmin,
                            tolerance_max |-> tmax, within_tolerance |-> wt,
                            confidence |-> conf])
         /\ qm' = Some(QualityMeasurement("brightness", value, tmin, tmax, wt, conf))
    /\ UNCHANGED qmScored

\* _calculate_quality_score and _determine_inspection_result on a report
\* with no defect and this one measurement
ScoreMeasurement ==
    /\ qm # None
    /\ qmScored = None
    /\ LET scored == InspectionReport(<<>>, <<qm[1]>>)
       IN  qmScored' = Some([overall_score     |-> scored.overall_score,
                             inspection_result |-> scored.inspection_result])
    /\ UNCHANGED <<qmArgs, qm>>

\* the object is dropped
DiscardMeasurement ==
    /\ qmScored # None
    /\ qmArgs' = None
    /\ qm' = None
    /\ qmScored' = None

NextMeasure ==
    \/ ConstructMeasurement
    \/ ScoreMeasurement
    \/ DiscardMeasurement

\* =====================================================================
\* computer_vision: inspect_part against the component states of the
\* inspector and of its detector
\* =====================================================================

InitReadiness ==
    /\ qiState = "UNINITIALIZED"
    /\ detState = "UNINITIALIZED"
    /\ qiStopped = FALSE
    /\ qiCall = None

\* DefectDetector.detect_defects: the state check, then the detection,
\* which returns its defects or an error result
DetectDefects(state, o) ==
    IF state # "READY" THEN ErrorResult("COMPONENT_NOT_READY")
    ELSE IF o = "ok" THEN SuccessResult("defects")
    ELSE ErrorResult("DETECTION_ERROR")

\* QualityInspector.inspect_part as a whole, given how preprocessing and
\* detection end: the stages it ran and the result it returned
InspectPartResult(state, detector, oPre, oDet) ==
    IF state # "READY"
    THEN [stages |-> <<>>, result |-> ErrorResult("COMPONENT_NOT_READY")]
    ELSE IF oPre # "ok"
    THEN [stages |-> <<"preprocess">>,
          result |-> ErrorResult("PREPROCESSING_FAILED")]
    ELSE IF ~DetectDefects(detector, oDet).success
    THEN [stages |-> <<"preprocess", "detect">>,
          result |-> ErrorResult("DEFECT_DETECTION_FAILED")]
    ELSE [stages |-> <<"preprocess", "detect", "measure", "score">>,
          result |-> SuccessResult("report")]

\* QualityInspector.initialize(): the processor, the detector, then the
\* inspector's own state. The processor fails without OpenCV, before
\* anything is set; set_state asks nothing about the state it leaves.
ReadinessInitialize ==
    /\ \E o \in {"ok", "fail"} :
         /\ detState' = IF o = "ok" THEN "READY" ELSE detState
         /\ qiState' = IF o = "ok" THEN "READY" ELSE qiState
    /\ UNCHANGED <<qiStopped, qiCall>>

\* inspector.emergency_stop(): the method of the base class
ReadinessEmergencyStop ==
    /\ qiState' = "EMERGENCY_STOP"
    /\ qiStopped' = TRUE
    /\ UNCHANGED <<detState, qiCall>>

\* inspector.shutdown(): the processor, the detector, the inspector
ReadinessShutdown ==
    /\ detState' = "SHUTDOWN"
    /\ qiState' = "SHUTDOWN"
    /\ qiStopped' = TRUE
    /\ UNCHANGED qiCall

\* inspector.defect_detector.emergency_stop() or .shutdown()
DetectorStops ==
    /\ \E state \in {"EMERGENCY_STOP", "SHUTDOWN"} : detState' = state
    /\ UNCHANGED <<qiState, qiStopped, qiCall>>

\* inspect_part(image, part_id) from its call to its return
ReadinessInspectPart ==
    /\ \E oPre \in {"ok", "fail"}, oDet \in {"ok", "fail"} :
         LET done == InspectPartResult(qiState, detState, oPre, oDet)
         IN  qiCall' = Some([ state |-> qiState, detector |-> detState,
                              preprocess |-> oPre, stopped |-> qiStopped,
                              stages |-> done.stages, result |-> done.result ])
    /\ UNCHANGED <<qiState, detState, qiStopped>>

NextReadiness ==
    \/ ReadinessInitialize
    \/ ReadinessEmergencyStop
    \/ ReadinessShutdown
    \/ DetectorStops
    \/ ReadinessInspectPart

\* =====================================================================
\* cnc: MachineStatus and the MTConnect parser
\* =====================================================================

\* MachineStatus as the parser leaves it: axis positions, tool, coolant,
\* door, alarms and warnings keep their defaults and are left out.
MachineStatus(machine_id, state, now) ==
    [ machine_id            |-> machine_id,
      state                 |-> state,
      program_name          |-> None,
      feedrate              |-> None,
      spindle_speed         |-> None,
      emergency_stop_active |-> FALSE,
      timestamp             |-> now ]

\* MachineStatus.is_operational
IsOperational(status) == status.state \in {"READY", "ACTIVE"}

\* The data items of a /current document: the section they stand in, their
\* tag and their text.
SampleItems ==
    { [section |-> "Samples", tag |-> "SpindleSpeed", text |-> "1200"],
      [section |-> "Samples", tag |-> "Feedrate", text |-> "UNAVAILABLE"] }

EventItems ==
    { [section |-> "Events", tag |-> "Execution", text |-> "ACTIVE"],
      [section |-> "Events", tag |-> "Execution", text |-> "stopped"],
      [section |-> "Events", tag |-> "Execution", text |-> "PROGRAM_COMPLETED"],
      [section |-> "Events", tag |-> "EmergencyStop", text |-> "ARMED"],
      [section |-> "Events", tag |-> "EmergencyStop", text |-> "TRIGGERED"],
      [section |-> "Events", tag |-> "Program", text |-> "O1234"],
      [section |-> "Events", tag |-> "Execution", text |-> ""] }

DataItems == SampleItems \cup EventItems

\* str.upper() on the texts the model holds
Upper(text) ==
    CASE text = "stopped" -> "STOPPED"
      [] text = "high"    -> "HIGH"
      [] text = "urgent"  -> "URGENT"
      [] OTHER            -> text

\* float(value): the number, or None where Python raises ValueError
ParseFloat(text) == IF text = "1200" THEN Some(1200) ELSE None

\* What a processing step hands on: the status so far, or the fact that an
\* exception was raised.
Raised == [raised |-> TRUE]
Going(status) == [raised |-> FALSE, status |-> status]

\* MTConnectController._process_mtconnect_sample
ProcessMTConnectSample(sample, status) ==
    IF sample.tag = "SpindleSpeed" /\ sample.text # ""
    THEN IF ParseFloat(sample.text) = None THEN Raised
         ELSE Going([status EXCEPT !.spindle_speed = ParseFloat(sample.text)])
    ELSE IF sample.tag = "Feedrate" /\ sample.text # ""
    THEN IF ParseFloat(sample.text) = None THEN Raised
         ELSE Going([status EXCEPT !.feedrate = ParseFloat(sample.text)])
    ELSE Going(status)

\* mutant: an Execution value the table does not hold leaves the default
StateMapping_DefaultReady(value) ==
    IF value \in {"ACTIVE", "READY", "STOPPED", "INTERRUPTED"} THEN value
    ELSE "READY"

\* state_mapping.get(value.upper(), MachineState.UNAVAILABLE)
StateMapping(value) ==
    IF value \in {"ACTIVE", "READY", "STOPPED", "INTERRUPTED"} THEN value
    ELSE "UNAVAILABLE"

\* MTConnectController._process_mtconnect_event
ProcessMTConnectEvent(event, status) ==
    IF event.tag = "Execution" /\ event.text # ""
    THEN [status EXCEPT !.state = StateMapping(Upper(event.text))]
    ELSE IF event.tag = "EmergencyStop" /\ event.text # ""
    THEN [status EXCEPT !.emergency_stop_active = (Upper(event.text) = "ARMED")]
    ELSE IF event.tag = "Program" /\ event.text # ""
    THEN [status EXCEPT !.program_name = Some(event.text)]
    ELSE status

RECURSIVE ProcessSamples(_, _)
\* for sample in component_stream.findall(".//{*}Samples/*")
ProcessSamples(items, step) ==
    IF step.raised \/ items = <<>> THEN step
    ELSE ProcessSamples(Tail(items), ProcessMTConnectSample(Head(items), step.status))

RECURSIVE ProcessEvents(_, _)
\* for event in component_stream.findall(".//{*}Events/*")
ProcessEvents(items, step) ==
    IF step.raised \/ items = <<>> THEN step
    ELSE ProcessEvents(Tail(items), Going(ProcessMTConnectEvent(Head(items), step.status)))

\* mutant: the except clause returns the default status
ParseMTConnectStatus_KeepDefault(machine_id, payload, now) ==
    LET samples == SelectSeq(payload.items, LAMBDA i : i.section = "Samples")
        events  == SelectSeq(payload.items, LAMBDA i : i.section = "Events")
        parsed  == ProcessEvents(events,
                       ProcessSamples(samples,
                           Going(MachineStatus(machine_id, "READY", now))))
    IN  IF ~payload.well_formed \/ parsed.raised
        THEN MachineStatus(machine_id, "READY", now)
        ELSE parsed.status

\* MTConnectController._parse_mtconnect_status. A payload is a document
\* that is well formed or not and, in its one ComponentStream, the data
\* items in document order.
ParseMTConnectStatus(machine_id, payload, now) ==
    LET samples == SelectSeq(payload.items, LAMBDA i : i.section = "Samples")
        events  == SelectSeq(payload.items, LAMBDA i : i.section = "Events")
        parsed  == ProcessEvents(events,
                       ProcessSamples(samples,
                           Going(MachineStatus(machine_id, "READY", now))))
    IN  IF ~payload.well_formed \/ parsed.raised
        THEN MachineStatus(machine_id, "UNAVAILABLE", now)
        ELSE parsed.status

\* MTConnectController.get_status: the HTTP exchange ends in an exception,
\* a status other than 200, or 200 with a payload.
MTConnectGetStatus(machine_id, http, payload, now) ==
    IF http = "exception" THEN ErrorResult("STATUS_ERROR")
    ELSE IF http # "200" THEN ErrorResult("REQUEST_FAILED")
    ELSE SuccessResult(ParseMTConnectStatus(machine_id, payload, now))

HttpOutcomes == {"200", "503", "exception"}

RECURSIVE SeqsUpTo(_, _)
\* the sequences over S of length at most n
SeqsUpTo(S, n) ==
    IF n = 0 THEN {<<>>}
    ELSE LET shorter == SeqsUpTo(S, n - 1)
         IN  shorter \cup {Append(q, x) : q \in shorter, x \in S}

Payloads ==
    [well_formed : BOOLEAN, items : SeqsUpTo(DataItems, MaxItems)]

\* ---- actions: get_status called on an MTConnect controller

InitParse ==
    /\ agentResponse = None
    /\ readResponse = None
    /\ statusResult = None

\* get_status: session.get(current_url), answered by the agent
RequestCurrent ==
    /\ agentResponse = None
    /\ statusResult = None
    /\ \E http \in HttpOutcomes, payload \in Payloads :
           agentResponse' = Some([http |-> http, payload |-> payload])
    /\ readResponse' = None
    /\ statusResult' = None

\* get_status: the answer is read, parsed and returned
FinishGetStatus ==
    /\ agentResponse # None
    /\ statusResult' = Some(MTConnectGetStatus("m1", agentResponse[1].http,
                                               agentResponse[1].payload, 0))
    /\ readResponse' = agentResponse
    /\ agentResponse' = None

\* the caller is done with the result; the next call can begin
DropStatusResult ==
    /\ statusResult # None
    /\ statusResult' = None
    /\ readResponse' = None
    /\ UNCHANGED agentResponse

NextParse ==
    \/ RequestCurrent
    \/ FinishGetStatus
    \/ DropStatusResult

\* =====================================================================
\* cnc: CNCController variants and CNCManager
\* =====================================================================

\* The controllers, named by their machine id, and the class of each:
\* the two concrete protocols and one further subclass of the abstract
\* CNCController, whose abstract methods may return a success, return a
\* failure or raise.
Machines == {"m1", "m2", "m3"}

Protocol(m) ==
    IF m = "m1" THEN "MTCONNECT" ELSE IF m = "m2" THEN "OPCUA" ELSE "CUSTOM"

\* How a call into a controller's protocol layer can end. The concrete
\* variants catch every exception and return an error result.
Outcomes(m) ==
    IF Protocol(m) = "CUSTOM" THEN {"ok", "fail", "raise"} ELSE {"ok", "fail"}

\* The document the MTConnect agent answers a monitoring poll with.
TickPayloads ==
    { [well_formed |-> TRUE,
       items |-> << [section |-> "Events", tag |-> "Execution", text |-> "ACTIVE"] >>] }

Range(q) == {q[i] : i \in 1..Len(q)}

\* ---- controller operations

\* initialize(): MTConnect probes the agent and is READY on HTTP 200;
\* OPC-UA is READY when the opcua package is there; the further subclass
\* is taken to be READY when its initialize succeeds.
InitializeState(state, o) == IF o = "ok" THEN "READY" ELSE state

\* send_command(): MTConnect always answers NOT_SUPPORTED, OPC-UA answers
\* NOT_CONNECTED without a client and succeeds with one.
SendCommandOutcomes(m, hasClient) ==
    IF Protocol(m) = "MTCONNECT" THEN {"fail"}
    ELSE IF Protocol(m) = "OPCUA" THEN {IF hasClient THEN "ok" ELSE "fail"}
    ELSE {"ok", "fail", "raise"}

\* CNCController.emergency_stop inside safety_context, given how
\* send_command ends: the outcome the caller sees, the component state
\* after it, and whether safety_context scheduled an escalation task.
ControllerEmergencyStop(state, o) ==
    IF o = "raise"
    THEN [outcome |-> "raise", state |-> state, escalated |-> TRUE]
    ELSE [outcome |-> o, state |-> "EMERGENCY_STOP", escalated |-> FALSE]

\* asyncio.create_task(component.emergency_stop()): one more pending task
Escalate(n) == IF n < MaxEscalations THEN n + 1 ELSE n

\* ---- manager operations

\* mutant: history.pop() in place of history.pop(0)
OnStatusUpdate_PopLast(history, status) ==
    LET machine_id == status.machine_id
    IN  IF machine_id \in DOMAIN history
        THEN LET appended == Append(history[machine_id], status)
             IN  [history EXCEPT ![machine_id] =
                      IF Len(appended) > MaxHistorySize
                      THEN SubSeq(appended, 1, Len(appended) - 1)
                      ELSE appended]
        ELSE history

\* CNCManager._on_status_update
OnStatusUpdate(history, status) ==
    LET machine_id == status.machine_id
    IN  IF machine_id \in DOMAIN history
        THEN LET appended == Append(history[machine_id], status)
             IN  [history EXCEPT ![machine_id] =
                      IF Len(appended) > MaxHistorySize THEN Tail(appended)
                      ELSE appended]
        ELSE history

RECURSIVE NotifyCallbacks(_, _, _)
\* _monitor_status: for callback in self._event_callbacks: callback(status)
NotifyCallbacks(callbacks, history, status) ==
    IF callbacks = <<>> THEN history
    ELSE NotifyCallbacks(Tail(callbacks), OnStatusUpdate(history, status), status)

RECURSIVE EmergencyStopLoop_NoIsolation(_, _, _)
\* mutant: no try/except around controller.emergency_stop(), so that the
\* first exception ends the loop
EmergencyStopLoop_NoIsolation(pending, choice, acc) ==
    IF pending = <<>> THEN acc
    ELSE LET m   == Head(pending)
             res == ControllerEmergencyStop(acc.states[m], choice[m])
             nxt == [ results   |-> IF res.outcome = "raise" THEN acc.results
                                    ELSE [x \in DOMAIN acc.results \cup {m} |->
                                             IF x = m THEN res.outcome = "ok"
                                             ELSE acc.results[x]],
                      attempted |-> Append(acc.attempted, m),
                      states    |-> [acc.states EXCEPT ![m] = res.state],
                      escalated |-> IF res.escalated THEN acc.escalated \cup {m}
                                    ELSE acc.escalated ]
         IN  IF res.outcome = "raise" THEN nxt
             ELSE EmergencyStopLoop_NoIsolation(Tail(pending), choice, nxt)

RECURSIVE EmergencyStopLoop(_, _, _)
\* emergency_stop_all: for machine_id, controller in self.controllers.items():
\*     try: results[machine_id] = (await controller.emergency_stop()).success
\*     except Exception: results[machine_id] = False
EmergencyStopLoop(pending, choice, acc) ==
    IF pending = <<>> THEN acc
    ELSE LET m   == Head(pending)
             res == ControllerEmergencyStop(acc.states[m], choice[m])
         IN  EmergencyStopLoop(Tail(pending), choice,
                 [ results   |-> [x \in DOMAIN acc.results \cup {m} |->
                                     IF x = m THEN res.outcome = "ok"
                                     ELSE acc.results[x]],
                   attempted |-> Append(acc.attempted, m),
                   states    |-> [acc.states EXCEPT ![m] = res.state],
                   escalated |-> IF res.escalated THEN acc.escalated \cup {m}
                                 ELSE acc.escalated ])

\* ---- actions

InitCNC ==
    /\ controllers = <<>>
    /\ status_history = <<>>
    /\ ctrlState = [m \in Machines |-> "UNINITIALIZED"]
    /\ client = [m \in Machines |-> FALSE]
    /\ current_status = [m \in Machines |-> None]
    /\ event_callbacks = [m \in Machines |-> <<>>]
    /\ monitoring = [m \in Machines |-> FALSE]
    /\ escalations = [m \in Machines |-> 0]
    /\ clock = 0
    /\ delivered = [m \in Machines |-> <<>>]
    /\ estopCall = None

\* mutant: the connect result is not looked at
Registers_IgnoreConnect(oInit, oConn) == oInit = "ok"

\* add_controller goes on to register the controller when neither
\* `if not init_result.success` nor `if not connect_result.success`
\* returned and nothing was raised.
Registers(oInit, oConn) == oInit = "ok" /\ oConn = "ok"

\* What add_controller returns: the failing init or connect result as it
\* is, ADD_CONTROLLER_ERROR for an exception, else success.
AddControllerResult(oInit, oConn) ==
    IF oInit = "raise" THEN ErrorResult("ADD_CONTROLLER_ERROR")
    ELSE IF oInit = "fail" THEN ErrorResult("init_result")
    ELSE IF oConn = "raise" THEN ErrorResult("ADD_CONTROLLER_ERROR")
    ELSE IF oConn = "fail" THEN ErrorResult("connect_result")
    ELSE SuccessResult(TRUE)

\* CNCManager.add_controller(controller): initialize, connect, register,
\* reset the history, attach the callback, start monitoring; oInit and
\* oConn are how initialize() and connect() end.
AddControllerWith(m, oInit, oConn) ==
    /\ LET afterInit == InitializeState(ctrlState[m], oInit)
             \* MTConnect connect() is initialize() once more; OPC-UA and
             \* the further subclass leave the state alone
             afterConn == IF Protocol(m) = "MTCONNECT"
                          THEN InitializeState(afterInit, oConn) ELSE afterInit
         IN  IF oInit # "ok"
             THEN /\ UNCHANGED <<controllers, status_history, ctrlState, client,
                                 event_callbacks, monitoring, delivered>>
             ELSE /\ ctrlState' = [ctrlState EXCEPT ![m] = afterConn]
                  \* OPC-UA connect() assigns self.client before connecting
                  /\ client' = IF Protocol(m) = "OPCUA"
                               THEN [client EXCEPT ![m] = TRUE] ELSE client
                  /\ IF ~Registers(oInit, oConn)
                     THEN UNCHANGED <<controllers, status_history, event_callbacks,
                                      monitoring, delivered>>
                     ELSE /\ controllers' = IF m \in Range(controllers) THEN controllers
                                            ELSE Append(controllers, m)
                          /\ status_history' =
                                 [x \in DOMAIN status_history \cup {m} |->
                                     IF x = m THEN <<>> ELSE status_history[x]]
                          /\ delivered' = [delivered EXCEPT ![m] = <<>>]
                          /\ event_callbacks' =
                                 [event_callbacks EXCEPT
                                     ![m] = Append(@, "_on_status_update")]
                          /\ monitoring' = [monitoring EXCEPT ![m] = TRUE]
    /\ UNCHANGED <<current_status, escalations, clock, estopCall>>

AddController(m) ==
    /\ Len(event_callbacks[m]) < MaxCallbacks
    /\ \E oInit \in Outcomes(m), oConn \in Outcomes(m) :
         AddControllerWith(m, oInit, oConn)

\* The status a poll of controller m can end with: an OperationResult.
PollResults(m, now) ==
    IF Protocol(m) = "MTCONNECT"
    THEN {MTConnectGetStatus(m, "200", p, now) : p \in TickPayloads}
         \cup {MTConnectGetStatus(m, "503", <<>>, now)}
    ELSE IF Protocol(m) = "OPCUA"
    THEN {IF client[m] THEN SuccessResult(MachineStatus(m, "READY", now))
          ELSE ErrorResult("NOT_CONNECTED")}
    ELSE {SuccessResult(MachineStatus(m, "ACTIVE", now)), ErrorResult("raised")}

\* mutant: a failed poll clears the status
PolledStatus_ClearOnFailure(old_status, status_result) ==
    IF status_result.success THEN status_result.result ELSE None

\* self.current_status after a poll: assigned only `if
\* status_result.success`.
PolledStatus(old_status, status_result) ==
    IF status_result.success THEN status_result.result ELSE old_status

\* One tick of CNCController._monitor_status: get_status, and on success
\* current_status and the callbacks.
MonitorTickWith(m, status_result) ==
    /\ monitoring[m]
    /\ clock < MaxTicks
    /\ clock' = clock + 1
    /\ current_status' =
           [current_status EXCEPT ![m] = PolledStatus(@, status_result)]
    /\   IF status_result.success
         THEN LET status == status_result.result[1]
              IN  /\ status_history' =
                         NotifyCallbacks(event_callbacks[m], status_history, status)
                  /\ delivered' =
                         [delivered EXCEPT
                             ![m] = @ \o [i \in 1..Len(event_callbacks[m]) |-> status]]
         ELSE UNCHANGED <<status_history, delivered>>
    /\ UNCHANGED <<controllers, ctrlState, client, event_callbacks, monitoring,
                   escalations, estopCall>>

MonitorTick(m) ==
    \E status_result \in PollResults(m, clock) : MonitorTickWith(m, status_result)

\* CNCManager.emergency_stop_all
EmergencyStopAll ==
    \E choice \in [Machines -> {"ok", "fail", "raise"}] :
        /\ \A m \in Machines : choice[m] \in SendCommandOutcomes(m, client[m])
        /\ LET done == EmergencyStopLoop(controllers, choice,
                           [ results |-> <<>>, attempted |-> <<>>,
                             states |-> ctrlState, escalated |-> {} ])
           IN  /\ ctrlState' = done.states
               /\ escalations' = [m \in Machines |->
                                     IF m \in done.escalated
                                     THEN Escalate(escalations[m])
                                     ELSE escalations[m]]
               /\ estopCall' = Some([ registered |-> Range(controllers),
                                      outcome    |-> [m \in Range(controllers) |-> choice[m]],
                                      attempted  |-> done.attempted,
                                      result     |-> SuccessResult(done.results) ])
        /\ UNCHANGED <<controllers, status_history, client, current_status,
                       event_callbacks, monitoring, clock, delivered>>

\* The task safety_context created runs: emergency_stop() once more.
RunEscalation(m) ==
    /\ escalations[m] > 0
    /\ \E o \in SendCommandOutcomes(m, client[m]) :
         LET res == ControllerEmergencyStop(ctrlState[m], o)
         IN  /\ ctrlState' = [ctrlState EXCEPT ![m] = res.state]
             /\ escalations' = [escalations EXCEPT
                                   ![m] = IF res.escalated THEN @ ELSE @ - 1]
    /\ UNCHANGED <<controllers, status_history, client, current_status,
                   event_callbacks, monitoring, clock, delivered, estopCall>>

\* The fleet-wide emergency stop, with registration and escalation tasks.
NextFleet ==
    \/ \E m \in Machines : AddController(m)
    \/ EmergencyStopAll
    \/ \E m \in Machines : RunEscalation(m)

\* The monitoring loops, with registration.
NextMonitor ==
    \/ \E m \in Machines : AddController(m)
    \/ \E m \in Machines : MonitorTick(m)


\* =====================================================================
\* api: the event broadcaster of ManufacturingAPI
\* =====================================================================

\* The websockets that may connect to /api/v1/events. event_subscribers is
\* keyed by str(websocket), which is distinct for distinct live websockets;
\* the model keys it by the websocket.
Websockets == {"ws1", "ws2", "ws3"}

\* core.base.Priority: member name -> value
Priority ==
    [EMERGENCY |-> 0, CRITICAL |-> 1, HIGH |-> 2, NORMAL |-> 3, LOW |-> 4,
     BACKGROUND |-> 5]

EventSubscription(event_types, priority_filter, component_filter) ==
    [event_types      |-> event_types,
     priority_filter  |-> priority_filter,
     component_filter |-> component_filter]

\* The subscriptions a client sends. The model validates nothing but the
\* field types, as EventSubscription does: the list may be empty and the
\* priority filter may be any string.
Subscriptions ==
    { EventSubscription(<<>>, Some(""), Some("")),
      EventSubscription(<<"quality_inspection", "machine_status">>,
                        Some("high"), None),
      EventSubscription(<<"machine_status">>, None, Some("cnc")),
      EventSubscription(<<>>, Some("urgent"), None) }

ManufacturingEvent(event_type, source_component, priority) ==
    [event_type       |-> event_type,
     source_component |-> source_component,
     priority         |-> priority]

Events ==
    { ManufacturingEvent(t, c, p) :
        t \in {"quality_inspection", "machine_status"},
        c \in {"api", "cnc"},
        p \in {"CRITICAL", "HIGH", "NORMAL"} }

\* Python truthiness of an Optional[str]
Truthy(opt) == opt # None /\ opt[1] # ""

\* mutant: the priority test drops an event of the threshold's own level
ShouldSendEvent_DropEqual(event, subscription) ==
    IF /\ subscription.event_types # <<>>
       /\ event.event_type \notin Range(subscription.event_types)
    THEN "False"
    ELSE IF /\ Truthy(subscription.priority_filter)
            /\ Upper(subscription.priority_filter[1]) \notin DOMAIN Priority
    THEN "KeyError"
    ELSE IF /\ Truthy(subscription.priority_filter)
            /\ Priority[event.priority] >=
                   Priority[Upper(subscription.priority_filter[1])]
    THEN "False"
    ELSE IF /\ Truthy(subscription.component_filter)
            /\ event.source_component # subscription.component_filter[1]
    THEN "False"
    ELSE "True"

\* ManufacturingAPI._should_send_event: "True", "False", or the KeyError
\* that Priority[...] raises for a name that is no member.
ShouldSendEvent(event, subscription) ==
    IF /\ subscription.event_types # <<>>
       /\ event.event_type \notin Range(subscription.event_types)
    THEN "False"
    ELSE IF /\ Truthy(subscription.priority_filter)
            /\ Upper(subscription.priority_filter[1]) \notin DOMAIN Priority
    THEN "KeyError"
    ELSE IF /\ Truthy(subscription.priority_filter)
            /\ Priority[event.priority] >
                   Priority[Upper(subscription.priority_filter[1])]
    THEN "False"
    ELSE IF /\ Truthy(subscription.component_filter)
            /\ event.source_component # subscription.component_filter[1]
    THEN "False"
    ELSE "True"

\* websocket.send_text: returns on an open websocket, raises on one whose
\* transport is gone.
SendText(state) == IF state = "open" THEN "ok" ELSE "raise"

\* The for loop of _broadcast_event over websocket_connections. Every
\* exception of the try block, from the filter or from the send, puts the
\* websocket on disconnected_connections.
RECURSIVE BroadcastLoop(_, _, _, _, _)

BroadcastLoop(pending, event, subscribers, state, acc) ==
    IF pending = <<>>
    THEN acc
    ELSE LET websocket == Head(pending)
             decision  == IF websocket \in DOMAIN subscribers
                          THEN ShouldSendEvent(event, subscribers[websocket])
                          ELSE "True"
             step ==
                 IF decision = "False"
                 THEN acc
                 ELSE IF decision = "KeyError"
                 THEN [acc EXCEPT !.disconnected_connections =
                                      Append(@, websocket)]
                 ELSE IF SendText(state[websocket]) = "raise"
                 THEN [acc EXCEPT !.send_failed = @ \cup {websocket},
                                  !.disconnected_connections =
                                      Append(@, websocket)]
                 ELSE [acc EXCEPT !.sent = @ \cup {websocket}]
         IN  BroadcastLoop(Tail(pending), event, subscribers, state, step)

\* list.remove / del for every websocket of a set
Without(connections, gone) == SelectSeq(connections, LAMBDA w : w \notin gone)
Drop(subscribers, gone) ==
    [w \in DOMAIN subscribers \ gone |-> subscribers[w]]

InitAPI ==
    /\ websocket_connections = <<>>
    /\ event_subscribers = <<>>
    /\ wsState = [w \in Websockets |-> "none"]
    /\ lastBroadcast = None

\* websocket_events: accept and append
Connect(w) ==
    /\ wsState[w] = "none"
    /\ wsState' = [wsState EXCEPT ![w] = "open"]
    /\ websocket_connections' = Append(websocket_connections, w)
    /\ lastBroadcast' = None
    /\ UNCHANGED event_subscribers

\* websocket_events: a "subscribe" message is received
Subscribe(w, subscription) ==
    /\ wsState[w] = "open"
    /\ event_subscribers' =
           [x \in DOMAIN event_subscribers \cup {w} |->
               IF x = w THEN subscription ELSE event_subscribers[x]]
    /\ lastBroadcast' = None
    /\ UNCHANGED <<websocket_connections, wsState>>

\* The peer goes away; the handler has not yet returned from receive_text.
PeerClose(w) ==
    /\ wsState[w] = "open"
    /\ wsState' = [wsState EXCEPT ![w] = "broken"]
    /\ lastBroadcast' = None
    /\ UNCHANGED <<websocket_connections, event_subscribers>>

\* websocket_events: receive_text or the message handling raises; the
\* finally block removes the websocket and its subscription.
Disconnect(w) ==
    /\ wsState[w] \in {"open", "broken"}
    /\ wsState' = [wsState EXCEPT ![w] = "none"]
    /\ websocket_connections' = Without(websocket_connections, {w})
    /\ event_subscribers' = Drop(event_subscribers, {w})
    /\ lastBroadcast' = None

\* ManufacturingAPI._broadcast_event, with no other task running between
\* its awaits.
BroadcastEvent(event) ==
    LET done ==
            IF websocket_connections = <<>>
            THEN [sent |-> {}, send_failed |-> {},
                  disconnected_connections |-> <<>>]
            ELSE BroadcastLoop(websocket_connections, event,
                               event_subscribers, wsState,
                               [sent |-> {}, send_failed |-> {},
                                disconnected_connections |-> <<>>])
        gone == Range(done.disconnected_connections)
    IN  /\ websocket_connections' = Without(websocket_connections, gone)
        /\ event_subscribers' = Drop(event_subscribers, gone)
        /\ lastBroadcast' =
               Some([event       |-> event,
                     connections |-> websocket_connections,
                     subscribers |-> event_subscribers,
                     state       |-> wsState,
                     sent        |-> done.sent,
                     send_failed |-> done.send_failed,
                     returned    |-> TRUE])
        /\ UNCHANGED wsState

NextBroadcast ==
    \/ \E w \in Websockets : Connect(w)
    \/ \E w \in Websockets, subscription \in Subscriptions :
           Subscribe(w, subscription)
    \/ \E w \in Websockets : PeerClose(w)
    \/ \E w \in Websockets : Disconnect(w)
    \/ \E event \in Events : BroadcastEvent(event)

\* ---- _broadcast_event one await at a time, with the websocket handlers
\* running between its awaits

\* the events and subscriptions of the stepwise runs: a subscription that
\* lets every event through and one that filters by type and priority
StepEvents ==
    { ManufacturingEvent("quality_inspection", "api", "HIGH"),
      ManufacturingEvent("machine_status", "cnc", "NORMAL") }
StepSubscriptions ==
    { EventSubscription(<<>>, Some(""), Some("")),
      EventSubscription(<<"quality_inspection", "machine_status">>,
                        Some("high"), None) }

InitBroadcastCall == bc = None

InFlight == IF bc = None THEN FALSE ELSE bc[1].pc = "send"

\* what _should_send_event decides for the websocket at this moment
Decision(event, subscribers, websocket) ==
    IF websocket \in DOMAIN subscribers
    THEN ShouldSendEvent(event, subscribers[websocket])
    ELSE "True"

RECURSIVE BroadcastAdvance(_, _, _)
\* `for websocket in self.websocket_connections` from the iterator's
\* position up to the next `await websocket.send_text` or the end of the
\* list: the list iterator yields connections[index] while index is less
\* than the list's current length, and then moves on by one.
BroadcastAdvance(b, connections, subscribers) ==
    IF b.index >= Len(connections)
    THEN [b EXCEPT !.pc = "cleanup", !.target = ""]
    ELSE LET websocket == connections[b.index + 1]
             decision  == Decision(b.event, subscribers, websocket)
             next      == [b EXCEPT !.index = @ + 1]
         IN  IF decision = "False"
             THEN BroadcastAdvance(next, connections, subscribers)
             ELSE IF decision = "KeyError"
             THEN BroadcastAdvance(
                      [next EXCEPT !.disconnected_connections =
                                       Append(@, websocket)],
                      connections, subscribers)
             ELSE [next EXCEPT !.pc = "send", !.target = websocket]

\* the call after BroadcastAdvance: suspended in a send, or past the loop,
\* where the cleanup runs and the call returns
BroadcastContinue(b) ==
    IF b.pc = "send"
    THEN /\ bc' = Some(b)
         /\ UNCHANGED <<websocket_connections, event_subscribers>>
    ELSE LET gone == Range(b.disconnected_connections)
         IN  /\ bc' = Some([b EXCEPT !.pc = "done"])
             /\ websocket_connections' = Without(websocket_connections, gone)
             /\ event_subscribers' = Drop(event_subscribers, gone)

\* _broadcast_event(event) is called and runs to its first await
BroadcastBegin(event) ==
    /\ bc = None
    /\ LET start == [event |-> event, pc |-> "iter", index |-> 0, target |-> "",
                     disconnected_connections |-> <<>>,
                     received  |-> [w \in Websockets |-> 0],
                     matching  |-> {w \in Range(websocket_connections) :
                                      Decision(event, event_subscribers, w) = "True"},
                     throughout |-> Range(websocket_connections)]
       IN  IF websocket_connections = <<>>
           THEN /\ bc' = Some([start EXCEPT !.pc = "done"])
                /\ UNCHANGED <<websocket_connections, event_subscribers>>
           ELSE BroadcastContinue(
                    BroadcastAdvance(start, websocket_connections,
                                     event_subscribers))
    /\ UNCHANGED <<wsState, lastBroadcast>>

\* await websocket.send_text(...) returns or raises, and the loop goes on
\* to its next await
BroadcastSendReturns ==
    /\ InFlight
    /\ LET b == bc[1]
           after ==
               IF SendText(wsState[b.target]) = "ok"
               THEN [b EXCEPT !.received[b.target] = @ + 1]
               ELSE [b EXCEPT !.disconnected_connections = Append(@, b.target)]
       IN  BroadcastContinue(
               BroadcastAdvance(after, websocket_connections, event_subscribers))
    /\ UNCHANGED <<wsState, lastBroadcast>>

\* the caller of _broadcast_event goes on
BroadcastForget ==
    /\ bc # None
    /\ bc[1].pc = "done"
    /\ bc' = None
    /\ UNCHANGED apiVars

\* a websocket handler runs while the call is suspended or while none is
\* in progress; the call's record keeps who stayed connected throughout
StepConnect(w) ==
    /\ bc = None \/ InFlight
    /\ Connect(w)
    /\ UNCHANGED bc

StepSubscribe(w, subscription) ==
    /\ bc = None
    /\ Subscribe(w, subscription)
    /\ UNCHANGED bc

StepPeerClose(w) ==
    /\ bc = None \/ InFlight
    /\ PeerClose(w)
    /\ UNCHANGED bc

StepDisconnect(w) ==
    /\ bc = None \/ InFlight
    /\ Disconnect(w)
    /\ bc' = IF bc = None THEN bc
             ELSE Some([bc[1] EXCEPT !.throughout = @ \ {w}])

NextBroadcastSteps ==
    \/ \E w \in Websockets : StepConnect(w)
    \/ \E w \in Websockets, subscription \in StepSubscriptions :
           StepSubscribe(w, subscription)
    \/ \E w \in Websockets : StepPeerClose(w)
    \/ \E w \in Websockets : StepDisconnect(w)
    \/ \E event \in StepEvents : BroadcastBegin(event)
    \/ BroadcastSendReturns
    \/ BroadcastForget


\* =====================================================================
\* cnc: the monitoring task and shutdown, one await at a time
\* =====================================================================

\* How a get_status call ends for the loop that awaits it: with a success
\* result, with an error result, or with an exception.
PollKind(status_result) ==
    IF status_result.success THEN "success"
    ELSE IF status_result.error_code = Some("raised") THEN "raise"
    ELSE "error"

\* mutant: "break" in the except Exception clause
AfterPoll_BreakOnException(kind) == IF kind = "raise" THEN "ended" ELSE "sleep"

\* _monitor_status after get_status: a result, good or bad, is followed by
\* the sleep at the end of the try block; an exception by the sleep of the
\* except clause.
AfterPoll(kind) == IF kind = "raise" THEN "sleep_err" ELSE "sleep"

\* The while condition of _monitor_status.
LoopCondition(event_set) == IF event_set THEN "ended" ELSE "query"

\* A task that is not done: created, or suspended at one of its awaits.
Running(pc) == pc \in {"created", "query", "sleep", "sleep_err"}

\* How controller.shutdown() can begin. MTConnect inherits
\* BaseAsyncComponent.shutdown; OPC-UA disconnects first, which never
\* raises; a further subclass that overrides shutdown in the same way may
\* raise from its own teardown before it reaches super().shutdown().
ShutdownOutcomes(m) ==
    IF Protocol(m) = "CUSTOM" THEN {"ok", "raise"} ELSE {"ok"}

\* mutant: no try/except around controller.shutdown()
AfterControllerShutdown_Propagate(stage, rest) ==
    IF stage = "raised" THEN "propagated"
    ELSE IF rest = <<>> THEN "finishing" ELSE "calling"

\* CNCManager.shutdown after one controller's shutdown has returned or
\* raised: the next controller, or super().shutdown() after the last.
AfterControllerShutdown(stage, rest) ==
    IF rest = <<>> THEN "finishing" ELSE "calling"

NoShutdownCall == [caller |-> "none", stage |-> "idle"]
NoManagerShutdown ==
    [pc |-> "idle", pending |-> <<>>, attempted |-> <<>>, result |-> None]

InitLoop ==
    /\ loopPc = [m \in Machines |-> "none"]
    /\ shutdown_event = [m \in Machines |-> FALSE]
    /\ cancelRequested = [m \in Machines |-> FALSE]
    /\ lastPoll = [m \in Machines |-> "none"]
    /\ ctrlShutdown = [m \in Machines |-> NoShutdownCall]
    /\ mgrShutdown = NoManagerShutdown
    /\ managerState = "UNINITIALIZED"
    /\ orphanLoops = {}

\* The controllers this part follows step by step: the MTConnect one and
\* the further subclass.
LoopMachines == {m \in Machines : Protocol(m) \in {"MTCONNECT", "CUSTOM"}}

\* add_controller, with the task start_monitoring creates when the
\* controller has none that is still running. Here a controller is
\* registered once, and no registration runs while the manager iterates
\* its controllers in shutdown.
AddControllerLoop(m) ==
    /\ mgrShutdown.pc \in {"idle", "returned"}
    /\ ctrlShutdown[m].stage # "gathering"
    /\ m \notin Range(controllers)
    /\ AddController(m)
    /\ LET added == event_callbacks'[m] # event_callbacks[m]
       IN  /\ loopPc' = IF added /\ ~Running(loopPc[m])
                        THEN [loopPc EXCEPT ![m] = "created"] ELSE loopPc
           /\ ctrlShutdown' = IF added
                              THEN [ctrlShutdown EXCEPT ![m] = NoShutdownCall]
                              ELSE ctrlShutdown
           /\ mgrShutdown' = IF added THEN NoManagerShutdown ELSE mgrShutdown
    /\ UNCHANGED <<shutdown_event, cancelRequested, lastPoll, managerState,
                   orphanLoops>>

\* The task runs for the first time: the while condition, then get_status.
LoopRun(m) ==
    /\ loopPc[m] = "created"
    /\ ~cancelRequested[m]
    /\ loopPc' = [loopPc EXCEPT ![m] = LoopCondition(shutdown_event[m])]
    /\ monitoring' = [monitoring EXCEPT ![m] = ~shutdown_event[m]]
    /\ UNCHANGED <<controllers, status_history, ctrlState, client, current_status,
                   event_callbacks, escalations, clock, delivered, estopCall,
                   shutdown_event, cancelRequested, lastPoll, ctrlShutdown,
                   mgrShutdown, managerState, orphanLoops>>

\* get_status returns to the loop: current_status and the callbacks on a
\* success, then a sleep. This specification does not count time: every
\* status carries the same timestamp.
LoopPollReturns(m) ==
    /\ loopPc[m] = "query"
    /\ ~cancelRequested[m]
    /\ \E status_result \in PollResults(m, clock) :
         /\ IF status_result.success
            THEN LET status == status_result.result[1]
                 IN  /\ current_status' =
                            [current_status EXCEPT ![m] = Some(status)]
                     /\ status_history' =
                            NotifyCallbacks(event_callbacks[m], status_history,
                                            status)
            ELSE UNCHANGED <<current_status, status_history>>
         /\ loopPc' = [loopPc EXCEPT ![m] = AfterPoll(PollKind(status_result))]
         /\ lastPoll' = [lastPoll EXCEPT ![m] = PollKind(status_result)]
    /\ UNCHANGED <<controllers, ctrlState, client, event_callbacks, monitoring,
                   escalations, clock, delivered, estopCall,
                   shutdown_event, cancelRequested, ctrlShutdown, mgrShutdown,
                   managerState, orphanLoops>>

\* The sleep is over: the while condition, then get_status again.
LoopWake(m) ==
    /\ loopPc[m] \in {"sleep", "sleep_err"}
    /\ ~cancelRequested[m]
    /\ loopPc' = [loopPc EXCEPT ![m] = LoopCondition(shutdown_event[m])]
    /\ monitoring' = [monitoring EXCEPT ![m] = ~shutdown_event[m]]
    /\ UNCHANGED <<controllers, status_history, ctrlState, client, current_status,
                   event_callbacks, escalations, clock, delivered, estopCall,
                   shutdown_event, cancelRequested, lastPoll, ctrlShutdown,
                   mgrShutdown, managerState, orphanLoops>>

\* CancelledError is raised at the await the task is suspended at: the
\* try block breaks out of the loop, the except clause's sleep lets it
\* through; either way the task is done.
LoopCancelled(m) ==
    /\ cancelRequested[m]
    /\ Running(loopPc[m])
    /\ loopPc' = [loopPc EXCEPT ![m] = "ended"]
    /\ cancelRequested' = [cancelRequested EXCEPT ![m] = FALSE]
    /\ monitoring' = [monitoring EXCEPT ![m] = FALSE]
    /\ UNCHANGED <<controllers, status_history, ctrlState, client, current_status,
                   event_callbacks, escalations, clock, delivered, estopCall,
                   shutdown_event, lastPoll, ctrlShutdown, mgrShutdown,
                   managerState, orphanLoops>>

\* controller.shutdown() is called: a subclass's own teardown may raise;
\* otherwise BaseAsyncComponent.shutdown sets the state and the event,
\* cancels every task that is not done and awaits them all.
ControllerShutdownCall(m, caller) ==
    /\ ctrlShutdown[m].stage # "gathering"
    /\ \E o \in ShutdownOutcomes(m) :
         IF o = "raise"
         THEN /\ ctrlShutdown' =
                     [ctrlShutdown EXCEPT ![m] = [caller |-> caller,
                                                  stage  |-> "raised"]]
              /\ UNCHANGED <<ctrlState, shutdown_event, cancelRequested>>
         ELSE /\ ctrlState' = [ctrlState EXCEPT ![m] = "SHUTDOWN"]
              /\ shutdown_event' = [shutdown_event EXCEPT ![m] = TRUE]
              /\ cancelRequested' =
                     [cancelRequested EXCEPT ![m] = Running(loopPc[m])]
              /\ ctrlShutdown' =
                     [ctrlShutdown EXCEPT ![m] = [caller |-> caller,
                                                  stage  |-> "gathering"]]
    /\ UNCHANGED <<controllers, status_history, client, current_status,
                   event_callbacks, monitoring, escalations, clock, delivered,
                   estopCall, loopPc, lastPoll, managerState, orphanLoops>>

\* A caller other than the manager shuts a registered controller down.
DirectShutdown(m) ==
    /\ m \in Range(controllers)
    /\ ~(mgrShutdown.pc = "awaiting" /\ Head(mgrShutdown.pending) = m)
    /\ ControllerShutdownCall(m, "direct")
    /\ UNCHANGED mgrShutdown

\* asyncio.gather(*self._tasks) is done once every task is: shutdown
\* returns its success result.
FinishControllerShutdown(m) ==
    /\ ctrlShutdown[m].stage = "gathering"
    /\ ~Running(loopPc[m])
    /\ ctrlShutdown' = [ctrlShutdown EXCEPT ![m].stage = "returned"]
    /\ UNCHANGED <<cncVars, loopPc, shutdown_event, cancelRequested, lastPoll,
                   mgrShutdown, managerState, orphanLoops>>

\* CNCManager.shutdown is called: the loop over self.controllers.values().
ManagerShutdownBegin ==
    /\ mgrShutdown.pc \in {"idle", "returned"}
    /\ mgrShutdown' =
           [pc        |-> AfterControllerShutdown("none", controllers),
            pending   |-> controllers,
            attempted |-> <<>>,
            result    |-> None]
    /\ UNCHANGED <<cncVars, loopPc, shutdown_event, cancelRequested, lastPoll,
                   ctrlShutdown, managerState, orphanLoops>>

\* await controller.shutdown() for the next controller
ManagerCallController ==
    /\ mgrShutdown.pc = "calling"
    /\ ControllerShutdownCall(Head(mgrShutdown.pending), "manager")
    /\ mgrShutdown' = [mgrShutdown EXCEPT !.pc = "awaiting"]

\* add_controller succeeds for another controller object that carries a
\* machine id already registered: self.controllers[machine_id] and the
\* history are overwritten, the new controller gets the callback and a
\* task. The earlier controller is not shut down: its task, if it runs,
\* goes on and the manager holds no reference to it.
ReplaceController(m) ==
    /\ mgrShutdown.pc \in {"idle", "returned"}
    /\ ctrlShutdown[m].stage # "gathering"
    /\ m \in Range(controllers)
    /\ m \notin orphanLoops
    /\ orphanLoops' = IF Running(loopPc[m]) THEN orphanLoops \cup {m}
                      ELSE orphanLoops
    /\ status_history' = [status_history EXCEPT ![m] = <<>>]
    /\ delivered' = [delivered EXCEPT ![m] = <<>>]
    /\ ctrlState' = [ctrlState EXCEPT ![m] = "READY"]
    /\ current_status' = [current_status EXCEPT ![m] = None]
    /\ event_callbacks' = [event_callbacks EXCEPT ![m] = <<"_on_status_update">>]
    /\ monitoring' = [monitoring EXCEPT ![m] = TRUE]
    /\ loopPc' = [loopPc EXCEPT ![m] = "created"]
    /\ shutdown_event' = [shutdown_event EXCEPT ![m] = FALSE]
    /\ cancelRequested' = [cancelRequested EXCEPT ![m] = FALSE]
    /\ lastPoll' = [lastPoll EXCEPT ![m] = "none"]
    /\ ctrlShutdown' = [ctrlShutdown EXCEPT ![m] = NoShutdownCall]
    /\ mgrShutdown' = NoManagerShutdown
    /\ UNCHANGED <<controllers, client, escalations, clock, estopCall,
                   managerState>>

\* The task of an overwritten controller polls with success: its callback
\* is still the manager's _on_status_update.
OrphanPollReturns(m) ==
    /\ m \in orphanLoops
    /\ \E status_result \in PollResults(m, clock) :
         /\ status_result.success
         /\ status_history' =
                OnStatusUpdate(status_history, status_result.result[1])
    /\ UNCHANGED <<controllers, ctrlState, client, current_status,
                   event_callbacks, monitoring, escalations, clock, delivered,
                   estopCall, loopVars>>

\* The awaited shutdown has returned or raised; an exception is logged.
ManagerControllerDone ==
    /\ mgrShutdown.pc = "awaiting"
    /\ LET m == Head(mgrShutdown.pending)
       IN  /\ ctrlShutdown[m].caller = "manager"
           /\ ctrlShutdown[m].stage \in {"returned", "raised"}
           /\ mgrShutdown' =
                  [mgrShutdown EXCEPT
                      !.pc = AfterControllerShutdown(ctrlShutdown[m].stage,
                                                     Tail(mgrShutdown.pending)),
                      !.pending = Tail(@),
                      !.attempted = Append(@, m)]
    /\ UNCHANGED <<cncVars, loopPc, shutdown_event, cancelRequested, lastPoll,
                   ctrlShutdown, managerState, orphanLoops>>

\* return await super().shutdown(): the manager has no tasks of its own.
ManagerShutdownFinish ==
    /\ mgrShutdown.pc = "finishing"
    /\ managerState' = "SHUTDOWN"
    /\ mgrShutdown' = [mgrShutdown EXCEPT !.pc = "returned",
                                          !.result = Some(SuccessResult(TRUE))]
    /\ UNCHANGED <<cncVars, loopPc, shutdown_event, cancelRequested, lastPoll,
                   ctrlShutdown, orphanLoops>>

\* =====================================================================
\* cnc: CNCManager.add_controller and get_all_status as their caller
\* sees them
\* =====================================================================

\* mutant: every registered machine gets an entry, a machine without a
\* status a placeholder
GetAllStatus_AllRegistered(ctrls, cur) ==
    [m \in Range(ctrls) |->
        IF cur[m] # None THEN cur[m][1] ELSE MachineStatus(m, "UNKNOWN", 0)]

\* CNCManager.get_all_status: the dictionary it builds. A MachineStatus
\* is a dataclass without __bool__ or __len__, so `if
\* controller.current_status` is `is not None`.
GetAllStatus(ctrls, cur) ==
    [m \in {x \in Range(ctrls) : cur[x] # None} |-> cur[m][1]]

InitManager ==
    /\ addCall = None
    /\ lastGood = [m \in Machines |-> None]
    /\ statusCall = None

\* The record of an add_controller call; seq tells one call from the next.
AddCallRecord(m, oInit, oConn) ==
    [ machine_id |-> m, init |-> oInit, connect |-> oConn,
      result |-> AddControllerResult(oInit, oConn),
      seq |-> IF addCall = None THEN 0 ELSE 1 - addCall[1].seq ]

\* add_controller(controller) for the controller object known under m:
\* never passed before, or passed once more.
AddControllerCall(m) ==
    /\ Len(event_callbacks[m]) < MaxCallbacks
    /\ \E oInit \in Outcomes(m), oConn \in Outcomes(m) :
         /\ AddControllerWith(m, oInit, oConn)
         /\ addCall' = Some(AddCallRecord(m, oInit, oConn))
    /\ statusCall' = None
    /\ UNCHANGED lastGood

\* add_controller(controller) for another controller object that carries
\* the machine id m, which is registered already. When the call fails the
\* object is dropped; when it succeeds it takes the place of the earlier
\* one under self.controllers[m], with a state, a status and callbacks
\* of its own.
AddOtherControllerCall(m) ==
    /\ m \in Range(controllers)
    /\ \E oInit \in Outcomes(m), oConn \in Outcomes(m) :
         /\ addCall' = Some(AddCallRecord(m, oInit, oConn))
         /\ IF ~Registers(oInit, oConn)
            THEN UNCHANGED <<cncVars, lastGood>>
            ELSE /\ status_history' = [status_history EXCEPT ![m] = <<>>]
                 /\ delivered' = [delivered EXCEPT ![m] = <<>>]
                 /\ ctrlState' = [ctrlState EXCEPT ![m] = "READY"]
                 /\ client' = [client EXCEPT ![m] = Protocol(m) = "OPCUA"]
                 /\ current_status' = [current_status EXCEPT ![m] = None]
                 /\ event_callbacks' =
                        [event_callbacks EXCEPT ![m] = <<"_on_status_update">>]
                 /\ monitoring' = [monitoring EXCEPT ![m] = TRUE]
                 /\ lastGood' = [lastGood EXCEPT ![m] = None]
                 /\ UNCHANGED <<controllers, escalations, clock, estopCall>>
    /\ statusCall' = None

\* One tick of the monitoring loop of the controller registered or known
\* under m, with the status of a successful poll kept aside.
ManagerTick(m) ==
    /\ \E status_result \in PollResults(m, clock) :
         /\ MonitorTickWith(m, status_result)
         /\ lastGood' = IF status_result.success
                        THEN [lastGood EXCEPT ![m] = status_result.result]
                        ELSE lastGood
    /\ statusCall' = None
    /\ addCall' = None

\* get_all_status()
GetAllStatusCall ==
    /\ statusCall' = Some(SuccessResult(GetAllStatus(controllers, current_status)))
    /\ addCall' = None
    /\ UNCHANGED <<cncVars, lastGood>>

NextManager ==
    \/ \E m \in LoopMachines : AddControllerCall(m)
    \/ \E m \in LoopMachines : AddOtherControllerCall(m)
    \/ \E m \in LoopMachines : ManagerTick(m)
    \/ GetAllStatusCall

\* =====================================================================
\* cnc: the status callbacks of one controller's monitoring loop
\* =====================================================================

\* The callables handed to add_status_callback. A call of one returns or
\* raises.
StatusCallbacks == {"_on_status_update", "on_alarm", "on_display"}

\* what get_status hands the loop: a status, an error result, an exception
CallbackPollResults ==
    {SuccessResult(MachineStatus("m1", state, 0)) : state \in {"READY", "ACTIVE"}}
    \cup {ErrorResult("REQUEST_FAILED")}

RECURSIVE InvokeCallbacks_NoIsolation(_, _, _)
\* mutant: no try/except around callback(status), so that the first
\* exception leaves the for loop
InvokeCallbacks_NoIsolation(callbacks, status, raising) ==
    IF callbacks = <<>> THEN <<>>
    ELSE LET call == [callback |-> Head(callbacks), status |-> status,
                      raised |-> Head(callbacks) \in raising]
         IN  IF call.raised THEN <<call>>
             ELSE <<call>> \o InvokeCallbacks_NoIsolation(Tail(callbacks), status, raising)

RECURSIVE InvokeCallbacks(_, _, _)
\* _monitor_status: for callback in self._event_callbacks, with the
\* try/except around each callback(self.current_status)
InvokeCallbacks(callbacks, status, raising) ==
    IF callbacks = <<>> THEN <<>>
    ELSE LET call == [callback |-> Head(callbacks), status |-> status,
                      raised |-> Head(callbacks) \in raising]
         IN  <<call>> \o InvokeCallbacks(Tail(callbacks), status, raising)

\* mutant: an exception of a callback ends the loop
AfterCallbacks_EndOnRaise(calls) ==
    IF \E k \in 1..Len(calls) : calls[k].raised THEN "ended" ELSE "sleep"

\* _monitor_status after the for loop over the callbacks: each exception
\* was caught and logged inside the loop, and await asyncio.sleep(...)
\* follows.
AfterCallbacks(calls) == "sleep"

InitCallbacks ==
    /\ cbRegistered = <<>>
    /\ cbPc = "sleep"
    /\ cbPoll = None
    /\ cbCalls = <<>>
    /\ cbStatus = None

\* add_status_callback(callback), from a task that runs while the loop
\* sleeps or waits for get_status
AddStatusCallback(callback) ==
    /\ Len(cbRegistered) < MaxRegistered
    /\ cbRegistered' = Append(cbRegistered, callback)
    /\ UNCHANGED <<cbPc, cbPoll, cbCalls, cbStatus>>

\* the sleep ends and the loop awaits self.get_status()
MonitorGetStatus ==
    /\ cbPc = "sleep"
    /\ cbPc' = "get_status"
    /\ UNCHANGED <<cbRegistered, cbPoll, cbCalls, cbStatus>>

\* get_status returns: on success current_status is set and the callbacks
\* run, one after the other with no await in between; then the loop
\* sleeps
MonitorStatusReturns ==
    /\ cbPc = "get_status"
    /\ \E status_result \in CallbackPollResults, raising \in SUBSET StatusCallbacks :
         /\ cbPoll' = Some(status_result)
         /\ cbStatus' = PolledStatus(cbStatus, status_result)
         /\ cbCalls' = IF status_result.success
                       THEN InvokeCallbacks(cbRegistered, status_result.result[1],
                                            raising)
                       ELSE <<>>
         /\ cbPc' = AfterCallbacks(cbCalls')
    /\ UNCHANGED cbRegistered

\* get_status raises: the loop logs and sleeps
MonitorStatusRaises ==
    /\ cbPc = "get_status"
    /\ cbPoll' = None
    /\ cbCalls' = <<>>
    /\ cbPc' = "sleep"
    /\ UNCHANGED <<cbRegistered, cbStatus>>

NextCallbacks ==
    \/ \E callback \in StatusCallbacks : AddStatusCallback(callback)
    \/ MonitorGetStatus
    \/ MonitorStatusReturns
    \/ MonitorStatusRaises

\* =====================================================================
\* cnc: start_monitoring, stop_monitoring and shutdown of one controller
\* called from concurrent tasks
\* =====================================================================

\* the tasks add_task can create in a run, in order of creation
TaskIds == 1..MaxTasks

\* a task that was created and has not ended
Unfinished(id) == taskPc[id] \in {"created", "get_status", "sleep"}

\* CNCController._tasks: every task add_task ever created
CreatedTasks == {id \in TaskIds : taskPc[id] # "none"}

InitTasks ==
    /\ taskPc = [id \in TaskIds |-> "none"]
    /\ taskCancel = {}
    /\ monitoring_task = None
    /\ stopAwait = None
    /\ shutdownCall = "none"
    /\ lastStart = None

\* `self._monitoring_task and not self._monitoring_task.done()`
MonitoringActive ==
    IF monitoring_task = None THEN FALSE ELSE Unfinished(monitoring_task[1])

\* start_monitoring(), called by add_controller or by another caller. The
\* awaited add_task creates the task and returns without suspending, so
\* the call runs in one piece.
StartMonitoringCall(caller) ==
    /\ LET loops == {id \in TaskIds : Unfinished(id) /\ id \notin taskCancel}
       IN  IF MonitoringActive
           THEN /\ lastStart' = Some([caller |-> caller,
                                      result |-> ErrorResult("ALREADY_MONITORING"),
                                      loops_before |-> loops, created |-> {}])
                /\ UNCHANGED <<taskPc, monitoring_task>>
           ELSE \E id \in TaskIds :
                  /\ taskPc[id] = "none"
                  /\ \A other \in TaskIds : other < id => taskPc[other] # "none"
                  /\ taskPc' = [taskPc EXCEPT ![id] = "created"]
                  /\ monitoring_task' = Some(id)
                  /\ lastStart' = Some([caller |-> caller,
                                        result |-> SuccessResult(TRUE),
                                        loops_before |-> loops, created |-> {id}])
    /\ UNCHANGED <<taskCancel, stopAwait, shutdownCall>>

\* stop_monitoring() up to `await self._monitoring_task`: with no task it
\* returns; awaiting a task that has ended does not suspend
StopMonitoringBegin ==
    /\ stopAwait = None
    /\ IF monitoring_task = None
       THEN UNCHANGED <<taskCancel, monitoring_task, stopAwait>>
       ELSE IF Unfinished(monitoring_task[1])
       THEN /\ taskCancel' = taskCancel \cup {monitoring_task[1]}
            /\ stopAwait' = monitoring_task
            /\ UNCHANGED monitoring_task
       ELSE /\ monitoring_task' = None
            /\ UNCHANGED <<taskCancel, stopAwait>>
    /\ lastStart' = None
    /\ UNCHANGED <<taskPc, shutdownCall>>

\* the awaited task has ended and the call is run again:
\* `self._monitoring_task = None`
StopMonitoringResume ==
    /\ stopAwait # None
    /\ ~Unfinished(stopAwait[1])
    /\ monitoring_task' = None
    /\ stopAwait' = None
    /\ lastStart' = None
    /\ UNCHANGED <<taskPc, taskCancel, shutdownCall>>

\* _monitor_status is run for the first time or after its sleep: the
\* while condition, then await self.get_status()
TaskRun(id) ==
    /\ taskPc[id] \in {"created", "sleep"}
    /\ id \notin taskCancel
    /\ taskPc' = [taskPc EXCEPT
                     ![id] = IF shutdownCall # "none" THEN "done" ELSE "get_status"]
    /\ lastStart' = None
    /\ UNCHANGED <<taskCancel, monitoring_task, stopAwait, shutdownCall>>

\* get_status returns or raises; the loop goes to its sleep
TaskPollReturns(id) ==
    /\ taskPc[id] = "get_status"
    /\ id \notin taskCancel
    /\ taskPc' = [taskPc EXCEPT ![id] = "sleep"]
    /\ lastStart' = None
    /\ UNCHANGED <<taskCancel, monitoring_task, stopAwait, shutdownCall>>

\* the CancelledError reaches the task at its await (or before its first
\* step) and it ends
TaskCancelled(id) ==
    /\ Unfinished(id)
    /\ id \in taskCancel
    /\ taskPc' = [taskPc EXCEPT ![id] = "done"]
    /\ lastStart' = None
    /\ UNCHANGED <<taskCancel, monitoring_task, stopAwait, shutdownCall>>

\* BaseAsyncComponent.shutdown(): the event is set, every unfinished task
\* of _tasks is cancelled, and the call awaits them
TaskShutdownBegin ==
    /\ shutdownCall = "none"
    /\ taskCancel' = taskCancel \cup {id \in TaskIds : Unfinished(id)}
    /\ shutdownCall' = IF CreatedTasks = {} THEN "returned" ELSE "gathering"
    /\ lastStart' = None
    /\ UNCHANGED <<taskPc, monitoring_task, stopAwait>>

\* asyncio.gather over the tasks shutdown() found in _tasks returns
TaskShutdownReturns ==
    /\ shutdownCall = "gathering"
    /\ \A id \in taskCancel : ~Unfinished(id)
    /\ shutdownCall' = "returned"
    /\ lastStart' = None
    /\ UNCHANGED <<taskPc, taskCancel, monitoring_task, stopAwait>>

NextTasks ==
    \/ \E caller \in {"add_controller", "start_monitoring"} :
           StartMonitoringCall(caller)
    \/ StopMonitoringBegin
    \/ StopMonitoringResume
    \/ \E id \in TaskIds : TaskRun(id)
    \/ \E id \in TaskIds : TaskPollReturns(id)
    \/ \E id \in TaskIds : TaskCancelled(id)
    \/ TaskShutdownBegin
    \/ TaskShutdownReturns

\* =====================================================================
\* cnc: CNCManager.add_controller with several controller objects that
\* carry one machine id, and the monitoring loops of these objects
\* =====================================================================

\* Controller objects constructed with machine_id "m1"
ControllerObjects == {"c1", "c2"}

InitOwnership ==
    /\ registered = None
    /\ objCallbacks = [c \in ControllerObjects |-> <<>>]
    /\ objLoop = {}
    /\ objStatus = [c \in ControllerObjects |-> None]
    /\ ownHistory = None
    /\ pollCount = 0
    /\ lastPollBy = None

\* _on_status_update on the one machine id's buffer: nothing without the
\* key, else append and pop(0) beyond max_history_size
OnStatusUpdateOwn(history, status) ==
    IF history = None THEN history
    ELSE LET appended == Append(history[1], status)
         IN  Some(IF Len(appended) > MaxHistorySize THEN Tail(appended)
                  ELSE appended)

RECURSIVE NotifyOwn(_, _, _)
\* _monitor_status: for callback in self._event_callbacks: callback(status)
NotifyOwn(callbacks, history, status) ==
    IF callbacks = <<>> THEN history
    ELSE NotifyOwn(Tail(callbacks), OnStatusUpdateOwn(history, status), status)

\* add_controller(c): initialize and connect end as oInit and oConn; on
\* success the object is stored under its machine id, the history is a
\* new empty list, the callback is appended to the object's callbacks and
\* start_monitoring creates a task unless the object has one running.
AddControllerObject(c) ==
    /\ Len(objCallbacks[c]) < MaxCallbacks
    /\ \E oInit \in {"ok", "fail"}, oConn \in {"ok", "fail"} :
         IF Registers(oInit, oConn)
         THEN /\ registered' = Some(c)
              /\ ownHistory' = Some(<<>>)
              /\ objCallbacks' =
                     [objCallbacks EXCEPT ![c] = Append(@, "_on_status_update")]
              /\ objLoop' = objLoop \cup {c}
         ELSE UNCHANGED <<registered, ownHistory, objCallbacks, objLoop>>
    /\ lastPollBy' = None
    /\ UNCHANGED <<objStatus, pollCount>>

\* one tick of the monitoring loop of controller object c; a status is
\* told from every other by the object that polled it and the poll's
\* number
PollObject(c) ==
    /\ c \in objLoop
    /\ pollCount < MaxTicks
    /\ pollCount' = pollCount + 1
    /\ \E ok \in BOOLEAN :
         /\ lastPollBy' = Some([polled_by |-> c, success |-> ok,
                                status |-> [polled_by |-> c, poll |-> pollCount']])
         /\ IF ok
            THEN LET status == [polled_by |-> c, poll |-> pollCount']
                 IN  /\ objStatus' = [objStatus EXCEPT ![c] = Some(status)]
                     /\ ownHistory' = NotifyOwn(objCallbacks[c], ownHistory, status)
            ELSE UNCHANGED <<objStatus, ownHistory>>
    /\ UNCHANGED <<registered, objCallbacks, objLoop>>

NextOwnership ==
    \/ \E c \in ControllerObjects : AddControllerObject(c)
    \/ \E c \in ControllerObjects : PollObject(c)

\* =====================================================================
\* cnc: connect() and the sessions it opens, for the two shipped variants
\* =====================================================================

Variants == {"MTCONNECT", "OPCUA"}

\* the OPCUAClient objects, in order of construction
ClientObjects == 1..MaxSessions

InitConnect ==
    /\ connState = [v \in Variants |-> "UNINITIALIZED"]
    /\ connClient = None
    /\ connOpen = {}
    /\ connLoop = {}
    /\ lastConnect = None

\* The sessions a variant holds open. An MTConnect controller keeps none:
\* each request opens an aiohttp session and closes it on leaving the
\* `async with`.
OpenSessions(v, open) == IF v = "OPCUA" THEN open ELSE {}

\* initialize()
ConnInitialize(v) ==
    /\ \E o \in {"ok", "fail"} :
         connState' = [connState EXCEPT ![v] = InitializeState(@, o)]
    /\ lastConnect' = None
    /\ UNCHANGED <<connClient, connOpen, connLoop>>

\* connect(). MTConnect: initialize() once more, which sets READY on
\* success and never reads the state. OPC-UA: a new OPCUAClient
\* is stored in self.client, whatever self.client held, and connected;
\* when the constructor itself raises self.client stays as it was.
ConnConnect(v) ==
    /\ \E o \in {"ok", "fail"} :
         /\ connState' = [connState EXCEPT
                           ![v] = IF v = "MTCONNECT" THEN InitializeState(@, o)
                                  ELSE @]
         /\ IF v = "MTCONNECT"
            THEN UNCHANGED <<connClient, connOpen>>
            ELSE \E made \in (IF o = "ok" THEN {TRUE} ELSE BOOLEAN) :
                   IF ~made
                   THEN UNCHANGED <<connClient, connOpen>>
                   ELSE \E id \in ClientObjects :
                          /\ id = IF connClient = None THEN 1 ELSE connClient[1] + 1
                          /\ connClient' = Some(id)
                          /\ connOpen' = IF o = "ok" THEN connOpen \cup {id}
                                         ELSE connOpen
         /\ lastConnect' =
                Some([variant        |-> v,
                      outcome        |-> o,
                      again          |-> IF lastConnect = None THEN FALSE
                                         ELSE /\ lastConnect[1].variant = v
                                              /\ lastConnect[1].outcome = "ok",
                      state_before   |-> connState[v],
                      loop_before    |-> v \in connLoop])
    /\ UNCHANGED connLoop

\* disconnect(): OPC-UA disconnects the client self.client holds, which
\* raises when that client has no open session
ConnDisconnect(v) ==
    /\ IF v = "OPCUA" /\ connClient # None
       THEN connOpen' = connOpen \ {connClient[1]}
       ELSE UNCHANGED connOpen
    /\ lastConnect' = None
    /\ UNCHANGED <<connState, connClient, connLoop>>

\* start_monitoring() / stop_monitoring()
ConnStartMonitoring(v) ==
    /\ connLoop' = connLoop \cup {v}
    /\ lastConnect' = None
    /\ UNCHANGED <<connState, connClient, connOpen>>

ConnStopMonitoring(v) ==
    /\ connLoop' = connLoop \ {v}
    /\ lastConnect' = None
    /\ UNCHANGED <<connState, connClient, connOpen>>

NextConnect ==
    \/ \E v \in Variants : ConnInitialize(v)
    \/ \E v \in Variants : ConnConnect(v)
    \/ \E v \in Variants : ConnDisconnect(v)
    \/ \E v \in Variants : ConnStartMonitoring(v)
    \/ \E v \in Variants : ConnStopMonitoring(v)

\* =====================================================================
\* cnc: a controller's operations called one after the other, by a caller
\* other than the manager
\* =====================================================================

\* connect(): MTConnect's is initialize() once more; OPC-UA's builds and
\* connects self.client and never calls set_state; the further subclass
\* is taken to leave the state alone too.
ConnectState(m, state, o) ==
    IF Protocol(m) = "MTCONNECT" THEN InitializeState(state, o) ELSE state

\* disconnect(): MTConnect's returns success; OPC-UA's returns success
\* without a client and otherwise what client.disconnect does, which
\* raises on a session that is not (or no longer) open; self.client is
\* never set back to None.
DisconnectOutcomes(m, hasClient) ==
    IF Protocol(m) = "MTCONNECT" THEN {"ok"}
    ELSE IF Protocol(m) = "OPCUA" THEN (IF hasClient THEN {"ok", "fail"} ELSE {"ok"})
    ELSE {"ok", "fail", "raise"}

\* CNCController.start_program inside safety_context, given how
\* send_command ends: a returned result passes through as it is; an
\* exception schedules emergency_stop and reaches the caller as
\* SafetyException.
ControllerStartProgram(state, o) ==
    [outcome |-> o, state |-> state, escalated |-> o = "raise"]

\* BaseManufacturingComponent.start / stop / pause / resume
BaseStart(state) ==
    IF state # "READY"
    THEN [outcome |-> "fail", state |-> state, error_code |-> Some("INVALID_STATE")]
    ELSE [outcome |-> "ok", state |-> "RUNNING", error_code |-> None]
\* mutant: stop() sets READY without looking at the state
BaseStop_AlwaysReady(state) ==
    [outcome |-> "ok", state |-> "READY", error_code |-> None]
BaseStop(state) ==
    [outcome |-> "ok", state |-> IF state = "RUNNING" THEN "READY" ELSE state,
     error_code |-> None]
BasePause(state) ==
    IF state = "RUNNING"
    THEN [outcome |-> "ok", state |-> "PAUSED", error_code |-> None]
    ELSE [outcome |-> "fail", state |-> state, error_code |-> Some("INVALID_STATE")]
BaseResume(state) ==
    IF state = "PAUSED"
    THEN [outcome |-> "ok", state |-> "RUNNING", error_code |-> None]
    ELSE [outcome |-> "fail", state |-> state, error_code |-> Some("INVALID_STATE")]

BaseOp(op, state) ==
    CASE op = "start"  -> BaseStart(state)
      [] op = "stop"   -> BaseStop(state)
      [] op = "pause"  -> BasePause(state)
      [] op = "resume" -> BaseResume(state)

\* CNCCommand members and parameter arguments a caller passes
Commands == {"START_PROGRAM", "EMERGENCY_STOP", "SET_FEEDRATE"}
ParameterSets == {None, Some("feedrate=100")}

\* mutant: the command is reported as attempted and failed
MTConnectSendCommand_AsFailed(command, parameters) ==
    ErrorResult("COMMAND_ERROR")

\* MTConnectController.send_command
MTConnectSendCommand(command, parameters) == ErrorResult("NOT_SUPPORTED")

\* OPCUAController.send_command, o being how the attempt inside the try
\* block ends
OPCUASendCommand(hasClient, command, parameters, o) ==
    IF ~hasClient THEN ErrorResult("NOT_CONNECTED")
    ELSE IF o = "ok" THEN SuccessResult(TRUE)
    ELSE ErrorResult("COMMAND_ERROR")

\* The node writes and method calls a send_command call issues to the
\* machine. MTConnect is read-only. In OPCUAController.send_command the
\* only command-specific branch is EMERGENCY_STOP, whose body is a comment
\* and `pass`; no other command has a branch: nothing is ever written.
NodeWrites(protocol, hasClient, command) == {}

InitLifecycle == lastOp = None

\* What the caller of controller m's operation saw, with the component
\* state the controller was in when it was called.
OpRecord(op, m, o, escalated) ==
    Some([op |-> op, machine_id |-> m, outcome |-> o, escalated |-> escalated,
          before |-> ctrlState[m]])

OpInitialize(m) ==
    /\ \E o \in Outcomes(m) :
         /\ ctrlState' = [ctrlState EXCEPT ![m] = InitializeState(@, o)]
         /\ lastOp' = OpRecord("initialize", m, o, FALSE)
    /\ UNCHANGED <<controllers, status_history, client, current_status,
                   event_callbacks, monitoring, escalations, clock, delivered,
                   estopCall>>

OpConnect(m) ==
    /\ \E o \in Outcomes(m) :
         /\ ctrlState' = [ctrlState EXCEPT ![m] = ConnectState(m, @, o)]
         /\ lastOp' = OpRecord("connect", m, o, FALSE)
         \* self.client = OPCUAClient(...) comes first in the try block:
         \* a failing connect may or may not have got past it
         /\ \E c \in (IF Protocol(m) # "OPCUA" THEN {client[m]}
                       ELSE IF o = "ok" THEN {TRUE} ELSE {client[m], TRUE}) :
                client' = [client EXCEPT ![m] = c]
    /\ UNCHANGED <<controllers, status_history, current_status,
                   event_callbacks, monitoring, escalations, clock, delivered,
                   estopCall>>

OpDisconnect(m) ==
    /\ \E o \in DisconnectOutcomes(m, client[m]) :
         lastOp' = OpRecord("disconnect", m, o, FALSE)
    /\ UNCHANGED cncVars

\* start_monitoring(): ALREADY_MONITORING while the task runs
OpStartMonitoring(m) ==
    /\ lastOp' = OpRecord("start_monitoring", m,
                          IF monitoring[m] THEN "fail" ELSE "ok", FALSE)
    /\ monitoring' = [monitoring EXCEPT ![m] = TRUE]
    /\ UNCHANGED <<controllers, status_history, ctrlState, client,
                   current_status, event_callbacks, escalations, clock,
                   delivered, estopCall>>

\* stop_monitoring(): cancels the task and waits for it
OpStopMonitoring(m) ==
    /\ lastOp' = OpRecord("stop_monitoring", m, "ok", FALSE)
    /\ monitoring' = [monitoring EXCEPT ![m] = FALSE]
    /\ UNCHANGED <<controllers, status_history, ctrlState, client,
                   current_status, event_callbacks, escalations, clock,
                   delivered, estopCall>>

\* One iteration of the monitoring task; no time is counted here.
OpTick(m) ==
    /\ monitoring[m]
    /\ \E status_result \in PollResults(m, clock) :
         /\ lastOp' = OpRecord("tick", m, PollKind(status_result), FALSE)
         /\ IF status_result.success
            THEN /\ current_status' =
                        [current_status EXCEPT ![m] = status_result.result]
                 /\ status_history' =
                        NotifyCallbacks(event_callbacks[m], status_history,
                                        status_result.result[1])
            ELSE UNCHANGED <<current_status, status_history>>
    /\ UNCHANGED <<controllers, ctrlState, client, event_callbacks, monitoring,
                   escalations, clock, delivered, estopCall>>

OpEmergencyStop(m) ==
    /\ \E o \in SendCommandOutcomes(m, client[m]) :
         LET res == ControllerEmergencyStop(ctrlState[m], o)
         IN  /\ ctrlState' = [ctrlState EXCEPT ![m] = res.state]
             /\ escalations' = IF res.escalated
                               THEN [escalations EXCEPT ![m] = Escalate(@)]
                               ELSE escalations
             /\ lastOp' = OpRecord("emergency_stop", m, res.outcome, res.escalated)
    /\ UNCHANGED <<controllers, status_history, client, current_status,
                   event_callbacks, monitoring, clock, delivered, estopCall>>

OpStartProgram(m) ==
    /\ \E o \in SendCommandOutcomes(m, client[m]) :
         LET res == ControllerStartProgram(ctrlState[m], o)
         IN  /\ ctrlState' = [ctrlState EXCEPT ![m] = res.state]
             /\ escalations' = IF res.escalated
                               THEN [escalations EXCEPT ![m] = Escalate(@)]
                               ELSE escalations
             /\ lastOp' = OpRecord("start_program", m, res.outcome, res.escalated)
    /\ UNCHANGED <<controllers, status_history, client, current_status,
                   event_callbacks, monitoring, clock, delivered, estopCall>>

\* send_command(command, parameters) called on one of the two protocol
\* classes
OpSendCommand(m) ==
    /\ Protocol(m) \in {"MTCONNECT", "OPCUA"}
    /\ \E command \in Commands, parameters \in ParameterSets,
          o \in SendCommandOutcomes(m, client[m]) :
         LET result == IF Protocol(m) = "MTCONNECT"
                       THEN MTConnectSendCommand(command, parameters)
                       ELSE OPCUASendCommand(client[m], command, parameters, o)
         IN  lastOp' = Some([op |-> "send_command", machine_id |-> m,
                             outcome |-> IF result.success THEN "ok" ELSE "fail",
                             escalated |-> FALSE, before |-> ctrlState[m],
                             command |-> command, parameters |-> parameters,
                             result |-> result,
                             writes |-> NodeWrites(Protocol(m), client[m],
                                                   command)])
    /\ UNCHANGED cncVars

\* The emergency_stop task safety_context created gets to run.
OpRunEscalation(m) ==
    /\ RunEscalation(m)
    /\ lastOp' = OpRecord("escalation", m, "ok", FALSE)

\* start(), stop(), pause(), resume()
OpBase(m) ==
    /\ \E op \in {"start", "stop", "pause", "resume"} :
         LET res == BaseOp(op, ctrlState[m])
         IN  /\ ctrlState' = [ctrlState EXCEPT ![m] = res.state]
             /\ lastOp' = Some([op |-> op, machine_id |-> m,
                                 outcome |-> res.outcome, escalated |-> FALSE,
                                 before |-> ctrlState[m],
                                 error_code |-> res.error_code])
    /\ UNCHANGED <<controllers, status_history, client, current_status,
                   event_callbacks, monitoring, escalations, clock, delivered,
                   estopCall>>

\* shutdown(): the state, the event, the tasks cancelled and awaited
OpShutdown(m) ==
    /\ ctrlState' = [ctrlState EXCEPT ![m] = "SHUTDOWN"]
    /\ monitoring' = [monitoring EXCEPT ![m] = FALSE]
    /\ lastOp' = OpRecord("shutdown", m, "ok", FALSE)
    /\ UNCHANGED <<controllers, status_history, client, current_status,
                   event_callbacks, escalations, clock, delivered, estopCall>>

\* Controllers that are not handed to a manager share no state: a run
\* follows one controller, whichever is called first.
Driven(m) == IF lastOp = None THEN TRUE ELSE lastOp[1].machine_id = m

\* The two shipped controllers and the further subclass.
NextLifecycle ==
    \/ \E m \in Machines : Driven(m) /\ OpInitialize(m)
    \/ \E m \in Machines : Driven(m) /\ OpConnect(m)
    \/ \E m \in Machines : Driven(m) /\ OpDisconnect(m)
    \/ \E m \in Machines : Driven(m) /\ OpStartMonitoring(m)
    \/ \E m \in Machines : Driven(m) /\ OpStopMonitoring(m)
    \/ \E m \in Machines : Driven(m) /\ OpTick(m)
    \/ \E m \in Machines : Driven(m) /\ OpEmergencyStop(m)
    \/ \E m \in Machines : Driven(m) /\ OpStartProgram(m)
    \/ \E m \in Machines : Driven(m) /\ OpSendCommand(m)
    \/ \E m \in Machines : Driven(m) /\ OpRunEscalation(m)
    \/ \E m \in Machines : Driven(m) /\ OpBase(m)
    \/ \E m \in Machines : Driven(m) /\ OpShutdown(m)

\* The monitoring tasks with registration and a controller's own shutdown.
NextPoll ==
    \/ \E m \in LoopMachines : AddControllerLoop(m)
    \/ \E m \in LoopMachines : LoopRun(m)
    \/ \E m \in LoopMachines : LoopPollReturns(m)
    \/ \E m \in LoopMachines : LoopWake(m)
    \/ \E m \in LoopMachines : LoopCancelled(m)
    \/ \E m \in LoopMachines : DirectShutdown(m)
    \/ \E m \in LoopMachines : FinishControllerShutdown(m)

\* The same with the manager's shutdown and with overwritten controllers.
NextLoop ==
    \/ \E m \in LoopMachines : AddControllerLoop(m)
    \/ \E m \in LoopMachines : LoopRun(m)
    \/ \E m \in LoopMachines : LoopPollReturns(m)
    \/ \E m \in LoopMachines : LoopWake(m)
    \/ \E m \in LoopMachines : LoopCancelled(m)
    \/ \E m \in LoopMachines : DirectShutdown(m)
    \/ \E m \in LoopMachines : FinishControllerShutdown(m)
    \/ \E m \in LoopMachines : ReplaceController(m)
    \/ \E m \in LoopMachines : OrphanPollReturns(m)
    \/ ManagerShutdownBegin
    \/ ManagerCallController
    \/ ManagerControllerDone
    \/ ManagerShutdownFinish


Init == InitInspect /\ InitParse /\ InitCNC /\ InitAPI /\ InitLoop /\ InitManager
        /\ InitPipeline /\ InitLifecycle /\ InitMeasure /\ InitBroadcastCall
        /\ InitCallbacks /\ InitTasks /\ InitOwnership /\ InitPerform /\ InitConnect /\ InitReadiness

SpecInspect ==
    Init /\ [][NextInspect /\ UNCHANGED <<parseVars, cncVars, apiVars, loopVars, mgrVars, pipeVars, opVars, measVars, bcVars, cbVars, taskVars, ownVars, pmVars, connVars, readyVars>>]_vars

SpecMeasure ==
    Init /\ [][NextMeasure
                /\ UNCHANGED <<inspVars, parseVars, cncVars, apiVars, loopVars,
                               mgrVars, pipeVars, opVars, bcVars, cbVars, taskVars, ownVars, pmVars, connVars, readyVars>>]_vars

SpecPipeline ==
    Init /\ [][NextPipeline
                /\ UNCHANGED <<parseVars, cncVars, apiVars, loopVars, mgrVars,
                               opVars, measVars, bcVars, cbVars, taskVars, ownVars, pmVars, connVars, readyVars>>]_vars

SpecLifecycle ==
    Init /\ [][NextLifecycle
                /\ UNCHANGED <<inspVars, parseVars, apiVars, loopVars, mgrVars,
                               pipeVars, measVars, bcVars, cbVars, taskVars, ownVars, pmVars, connVars, readyVars>>]_vars

SpecParse ==
    Init /\ [][NextParse /\ UNCHANGED <<inspVars, cncVars, apiVars, loopVars, mgrVars, pipeVars, opVars, measVars, bcVars, cbVars, taskVars, ownVars, pmVars, connVars, readyVars>>]_vars

SpecFleet ==
    Init /\ [][NextFleet /\ UNCHANGED <<inspVars, parseVars, apiVars, loopVars, mgrVars, pipeVars, opVars, measVars, bcVars, cbVars, taskVars, ownVars, pmVars, connVars, readyVars>>]_vars

SpecMonitor ==
    Init /\ [][NextMonitor /\ UNCHANGED <<inspVars, parseVars, apiVars, loopVars, mgrVars, pipeVars, opVars, measVars, bcVars, cbVars, taskVars, ownVars, pmVars, connVars, readyVars>>]_vars

SpecBroadcast ==
    Init /\ [][NextBroadcast
                /\ UNCHANGED <<inspVars, parseVars, cncVars, loopVars, mgrVars, pipeVars, opVars, measVars, bcVars, cbVars, taskVars, ownVars, pmVars, connVars, readyVars>>]_vars

SpecBroadcastSteps ==
    Init /\ [][NextBroadcastSteps
                /\ UNCHANGED <<inspVars, parseVars, cncVars, loopVars, mgrVars,
                               pipeVars, opVars, measVars, cbVars, taskVars, ownVars, pmVars, connVars, readyVars>>]_vars

SpecCallbacks ==
    Init /\ [][NextCallbacks
                /\ UNCHANGED <<inspVars, parseVars, cncVars, apiVars, loopVars,
                               mgrVars, pipeVars, opVars, measVars, bcVars, taskVars, ownVars, pmVars, connVars, readyVars>>]_vars

SpecTasks ==
    Init /\ [][NextTasks
                /\ UNCHANGED <<inspVars, parseVars, cncVars, apiVars, loopVars,
                               mgrVars, pipeVars, opVars, measVars, bcVars,
                               cbVars, ownVars, pmVars, connVars, readyVars>>]_vars

SpecOwnership ==
    Init /\ [][NextOwnership
                /\ UNCHANGED <<inspVars, parseVars, cncVars, apiVars, loopVars,
                               mgrVars, pipeVars, opVars, measVars, bcVars,
                               cbVars, taskVars,
                               pmVars, connVars, readyVars>>]_vars

SpecPerform ==
    Init /\ [][NextPerform
                /\ UNCHANGED <<inspVars, parseVars, cncVars, apiVars, loopVars, mgrVars, pipeVars, opVars, measVars, bcVars, cbVars, taskVars, ownVars,
                               connVars, readyVars>>]_vars

SpecConnect ==
    Init /\ [][NextConnect
                /\ UNCHANGED <<inspVars, parseVars, cncVars, apiVars, loopVars, mgrVars, pipeVars, opVars, measVars, bcVars, cbVars, taskVars, ownVars, pmVars,
                               readyVars>>]_vars

SpecReadiness ==
    Init /\ [][NextReadiness
                /\ UNCHANGED <<inspVars, parseVars, cncVars, apiVars, loopVars, mgrVars, pipeVars, opVars, measVars, bcVars, cbVars, taskVars, ownVars, pmVars, connVars>>]_vars

SpecManager ==
    Init /\ [][NextManager
                /\ UNCHANGED <<inspVars, parseVars, apiVars, loopVars, pipeVars, opVars, measVars, bcVars, cbVars, taskVars, ownVars, pmVars, connVars, readyVars>>]_vars

SpecLoop ==
    Init /\ [][NextLoop /\ UNCHANGED <<inspVars, parseVars, apiVars, mgrVars, pipeVars, opVars, measVars, bcVars, cbVars, taskVars, ownVars, pmVars, connVars, readyVars>>]_vars

\* The operations that hand an OperationResult to their caller, one
\* subsystem per run: get_status, inspect_part, the manager's
\* add_controller and get_all_status, a controller's own operations.
NextResults ==
    /\ \/ /\ InitPipeline /\ InitManager /\ InitLifecycle /\ InitCNC
          /\ NextParse
          /\ UNCHANGED <<inspVars, cncVars, mgrVars, pipeVars, opVars>>
       \/ /\ InitParse /\ InitManager /\ InitLifecycle /\ InitCNC
          /\ NextPipeline
          /\ UNCHANGED <<parseVars, cncVars, mgrVars, opVars>>
       \/ /\ InitParse /\ InitPipeline /\ InitLifecycle
          /\ NextManager
          /\ UNCHANGED <<inspVars, parseVars, pipeVars, opVars>>
       \/ /\ InitParse /\ InitPipeline /\ InitManager
          /\ IF lastOp = None THEN InitCNC ELSE TRUE
          /\ NextLifecycle
          /\ UNCHANGED <<inspVars, parseVars, mgrVars, pipeVars>>
    /\ UNCHANGED <<apiVars, loopVars, measVars, bcVars, cbVars, taskVars, ownVars, pmVars, connVars, readyVars>>

SpecResults == Init /\ [][NextResults]_vars

\* The event loop runs a task that is ready: a created task starts, an
\* awaited get_status returns, a sleep ends, a cancellation is delivered.
LoopStep(m) ==
    /\ LoopRun(m) \/ LoopPollReturns(m) \/ LoopWake(m) \/ LoopCancelled(m)
    /\ UNCHANGED <<inspVars, parseVars, apiVars, mgrVars, pipeVars, opVars, measVars, bcVars, cbVars, taskVars, ownVars, pmVars, connVars, readyVars>>

SpecPollFair ==
    /\ Init
    /\ [][NextPoll /\ UNCHANGED <<inspVars, parseVars, apiVars, mgrVars, pipeVars, opVars, measVars, bcVars, cbVars, taskVars, ownVars, pmVars, connVars, readyVars>>]_vars
    /\ \A m \in LoopMachines : WF_vars(LoopStep(m))

\* The event loop runs a pending escalation task of the driven controller.
EscalationStep(m) ==
    /\ Driven(m)
    /\ OpRunEscalation(m)
    /\ UNCHANGED <<inspVars, parseVars, apiVars, loopVars, mgrVars, pipeVars, measVars, bcVars, cbVars, taskVars, ownVars, pmVars, connVars, readyVars>>

\* The controller operations with the event loop running every task that
\* safety_context created: asyncio.create_task schedules it, so a pending
\* escalation is eventually run.
SpecEstopFair ==
    /\ Init
    /\ [][NextLifecycle
            /\ UNCHANGED <<inspVars, parseVars, apiVars, loopVars, mgrVars, pipeVars, measVars, bcVars, cbVars, taskVars, ownVars, pmVars, connVars, readyVars>>]_vars
    /\ \A m \in Machines : WF_vars(EscalationStep(m))

\* =====================================================================
\* Properties of the inspector (checked under SpecInspect)
\* =====================================================================

HasCriticalDefect(ds) == \E i \in 1..Len(ds) : ds[i].severity > 7
HasOutOfTolerance(ms) == \E i \in 1..Len(ms) : ~ms[i].within_tolerance

\* C2: every report whose defect list holds a defect of severity > 0.7 has
\* inspection_result FAIL, whatever its measurements and its score are.
C2_CriticalDefectOverride ==
    report # None =>
        (HasCriticalDefect(report[1].defects) => report[1].inspection_result = "FAIL")

\* A report with a critical defect, no out-of-tolerance measurement and a
\* score of at least 0.95, which the score alone would pass.
C2_Witness ==
    /\ report # None
    /\ HasCriticalDefect(report[1].defects)
    /\ ~HasOutOfTolerance(report[1].measurements)
    /\ report[1].overall_score >= 950
    /\ report[1].inspection_result = "FAIL"

\* C3: every report whose measurement list holds an out-of-tolerance
\* measurement has inspection_result FAIL, whatever its score is.
C3_ToleranceOverride ==
    report # None =>
        (HasOutOfTolerance(report[1].measurements) => report[1].inspection_result = "FAIL")

\* A report with an out-of-tolerance measurement, no critical defect and a
\* score of at least 0.95.
C3_Witness ==
    /\ report # None
    /\ HasOutOfTolerance(report[1].measurements)
    /\ ~HasCriticalDefect(report[1].defects)
    /\ report[1].overall_score >= 950
    /\ report[1].inspection_result = "FAIL"

\* C4: with no critical defect and no out-of-tolerance measurement the score
\* alone decides: PASS iff score >= 0.95, NEEDS_REVIEW iff 0.80 <= score <
\* 0.95, UNCERTAIN iff 0.60 <= score < 0.80, FAIL iff score < 0.60.
C4_ScoreBands ==
    report # None =>
        LET r == report[1]
            s == r.overall_score
        IN  (~HasCriticalDefect(r.defects) /\ ~HasOutOfTolerance(r.measurements)) =>
                /\ (r.inspection_result = "PASS") <=> (s >= 950)
                /\ (r.inspection_result = "NEEDS_REVIEW") <=> (800 <= s /\ s < 950)
                /\ (r.inspection_result = "UNCERTAIN") <=> (600 <= s /\ s < 800)
                /\ (r.inspection_result = "FAIL") <=> (s < 600)

\* A report that fails on its score alone: several defects, none critical.
C4_Witness ==
    /\ report # None
    /\ ~HasCriticalDefect(report[1].defects)
    /\ ~HasOutOfTolerance(report[1].measurements)
    /\ report[1].defects # <<>>
    /\ report[1].overall_score < 600
    /\ report[1].inspection_result = "FAIL"

RECURSIVE SumOfDefectPenalties(_, _)
\* sum over the defects with index in I of severity * confidence * 0.2
SumOfDefectPenalties(ds, I) ==
    IF I = {} THEN 0
    ELSE LET i == CHOOSE x \in I : TRUE
         IN  2 * ds[i].severity * ds[i].confidence + SumOfDefectPenalties(ds, I \ {i})

RECURSIVE SumOfConfidences(_, _)
\* sum over the measurements with index in I of 0.1 * confidence
SumOfConfidences(ms, I) ==
    IF I = {} THEN 0
    ELSE LET i == CHOOSE x \in I : TRUE
         IN  10 * ms[i].confidence + SumOfConfidences(ms, I \ {i})

RawScore(ds, ms) ==
    1000 - SumOfDefectPenalties(ds, 1..Len(ds))
         - SumOfConfidences(ms, {i \in 1..Len(ms) : ~ms[i].within_tolerance})

\* C5: the overall score is 1.0 minus severity * confidence * 0.2 for every
\* defect minus 0.1 * confidence for every out-of-tolerance measurement,
\* clamped to [0, 1]; within-tolerance measurements cost nothing.
C5_ScoreFormula ==
    report # None =>
        LET r   == report[1]
            raw == RawScore(r.defects, r.measurements)
        IN  /\ r.overall_score = (IF raw < 0 THEN 0 ELSE IF raw > 1000 THEN 1000 ELSE raw)
            /\ 0 <= r.overall_score /\ r.overall_score <= 1000

\* A report whose raw score is below zero and is clamped to 0, with a
\* within-tolerance and an out-of-tolerance measurement in its list.
C5_Witness ==
    /\ report # None
    /\ RawScore(report[1].defects, report[1].measurements) < 0
    /\ report[1].overall_score = 0
    /\ \E i \in 1..Len(report[1].measurements) : report[1].measurements[i].within_tolerance
    /\ HasOutOfTolerance(report[1].measurements)

\* C6: appending a defect to the defect list, the measurements unchanged,
\* never increases the score the inspector computes.
C6_MonotonicScoring ==
    [][ (/\ measurements' = measurements
         /\ Len(defects') = Len(defects) + 1
         /\ SubSeq(defects', 1, Len(defects)) = defects)
        => CalculateQualityScore(defects', measurements')
             <= CalculateQualityScore(defects, measurements) ]_vars

\* A defect list whose last defect lowered the score strictly.
C6_Witness ==
    /\ defects # <<>>
    /\ CalculateQualityScore(defects, measurements)
         < CalculateQualityScore(SubSeq(defects, 1, Len(defects) - 1), measurements)

\* =====================================================================
\* Properties of the MTConnect parser (checked under SpecParse)
\* =====================================================================

\* C7: every MachineStatus get_status returns has emergency_stop_active
\* only when it is not operational (its state is neither READY nor ACTIVE).
C7_EStopImpliesNotOperational ==
    (statusResult # None /\ statusResult[1].success) =>
        LET status == statusResult[1].result[1]
        IN  status.emergency_stop_active => ~IsOperational(status)

\* =====================================================================
\* Properties of the manager (checked under SpecFleet and SpecMonitor)
\* =====================================================================

\* C1: emergency_stop_all attempts every registered controller, succeeds,
\* and returns a map over exactly the registered machine ids in which a
\* machine's entry is true iff its own emergency_stop returned a success.
C1_FleetIsolation ==
    estopCall # None =>
        LET call    == estopCall[1]
            results == call.result.result[1]
        IN  /\ call.result.success
            /\ Range(call.attempted) = call.registered
            /\ DOMAIN results = call.registered
            /\ \A m \in call.registered : results[m] = (call.outcome[m] = "ok")

\* A call in which a controller raised, one attempted after it succeeded
\* and one returned a failure.
C1_Witness ==
    /\ estopCall # None
    /\ LET call    == estopCall[1]
           results == call.result.result[1]
       IN  /\ \E i, j \in 1..Len(call.attempted) :
                  /\ i < j
                  /\ call.outcome[call.attempted[i]] = "raise"
                  /\ ~results[call.attempted[i]]
                  /\ results[call.attempted[j]]
           /\ \E m \in call.registered : call.outcome[m] = "fail" /\ ~results[m]

\* the last k entries of q, all of q when it has fewer
LastEntries(q, k) == SubSeq(q, Max(1, Len(q) - k + 1), Len(q))

\* C8: a machine's history never holds more than max_history_size entries
\* and is the last min(n, max_history_size) of the n statuses handed to
\* _on_status_update for it since its buffer was created, in arrival order.
C8_BoundedHistory ==
    \A m \in DOMAIN status_history :
        /\ Len(status_history[m]) <= MaxHistorySize
        /\ status_history[m] = LastEntries(delivered[m], MaxHistorySize)

\* One more update than the buffer holds, delivered one per poll: the
\* oldest is gone, the buffer is full and starts with the second.
C8_Witness ==
    \E m \in DOMAIN status_history :
        /\ Len(event_callbacks[m]) = 1
        /\ Len(delivered[m]) = MaxHistorySize + 1
        /\ Len(status_history[m]) = MaxHistorySize
        /\ status_history[m][1] = delivered[m][2]
        /\ status_history[m][1] # delivered[m][1]

\* =====================================================================
\* Properties of the event broadcaster (checked under SpecBroadcast)
\* =====================================================================

\* The subscribers of the broadcast that just returned that had a
\* subscription when it began and an open websocket throughout.
FilteredSubscribers(call) ==
    { w \in Range(call.connections) :
        w \in DOMAIN call.subscribers /\ call.state[w] = "open" }

\* The priority and component conditions of a subscription: a filter that
\* is absent or the empty string is not set; a priority filter that is set
\* names, in any letter case, the least urgent level still accepted.
PriorityAccepted(event, subscription) ==
    \/ ~Truthy(subscription.priority_filter)
    \/ \E level \in DOMAIN Priority :
           /\ level = Upper(subscription.priority_filter[1])
           /\ ~(Priority[event.priority] > Priority[level])

ComponentAccepted(event, subscription) ==
    \/ ~Truthy(subscription.component_filter)
    \/ event.source_component = subscription.component_filter[1]

\* C9 as stated: the event is delivered to a subscriber with a subscription
\* iff its type is among the accepted event types, its priority value is
\* not greater than the threshold (when set) and its source component
\* equals the component filter (when set).
C9_DeliveredIffTypeListed ==
    lastBroadcast # None =>
        LET call == lastBroadcast[1]
        IN  \A w \in FilteredSubscribers(call) :
                w \in call.sent <=>
                    /\ call.event.event_type
                           \in Range(call.subscribers[w].event_types)
                    /\ PriorityAccepted(call.event, call.subscribers[w])
                    /\ ComponentAccepted(call.event, call.subscribers[w])

\* C9, amended: the event is delivered to a subscriber with a subscription
\* iff its list of accepted event types is empty or holds the event's type,
\* its priority filter is not set or names a Priority level whose value the
\* event's priority value does not exceed, and its component filter is not
\* set or equals the event's source component; with priority_filter HIGH
\* and the other conditions met, a NORMAL event is not delivered and a
\* CRITICAL event is.
C9_SubscriberFilter ==
    lastBroadcast # None =>
        LET call == lastBroadcast[1]
        IN  \A w \in FilteredSubscribers(call) :
                LET subscription == call.subscribers[w]
                    listed == \/ subscription.event_types = <<>>
                              \/ call.event.event_type
                                     \in Range(subscription.event_types)
                IN  /\ w \in call.sent <=>
                           /\ listed
                           /\ PriorityAccepted(call.event, subscription)
                           /\ ComponentAccepted(call.event, subscription)
                    /\ ( /\ subscription.priority_filter \in
                                {Some("HIGH"), Some("high")}
                         /\ listed
                         /\ ComponentAccepted(call.event, subscription) )
                       => /\ call.event.priority = "NORMAL" => w \notin call.sent
                          /\ call.event.priority = "CRITICAL" => w \in call.sent

\* A CRITICAL event reaches a subscriber whose priority filter is HIGH and
\* one whose list of event types is empty, and is kept from a subscriber
\* whose component filter names another component.
C9_Witness ==
    /\ lastBroadcast # None
    /\ LET call == lastBroadcast[1]
       IN  /\ call.event.priority = "CRITICAL"
           /\ \E w1, w2, w3 \in FilteredSubscribers(call) :
                  /\ Truthy(call.subscribers[w1].priority_filter)
                  /\ Upper(call.subscribers[w1].priority_filter[1]) = "HIGH"
                  /\ w1 \in call.sent
                  /\ call.subscribers[w2].event_types = <<>>
                  /\ ~Truthy(call.subscribers[w2].priority_filter)
                  /\ w2 \in call.sent
                  /\ Truthy(call.subscribers[w3].component_filter)
                  /\ call.event.event_type
                         \in Range(call.subscribers[w3].event_types)
                  /\ w3 \notin call.sent

\* C10: in a broadcast where the send to a subscriber S fails, every other
\* subscriber whose filter matches is sent the event, the broadcast
\* returns, S and its subscription are gone from the subscriber set
\* afterwards, and every subscriber to which no send failed is still in it.
C10_FailureIsolation ==
    (lastBroadcast # None /\ lastBroadcast[1].send_failed # {}) =>
        LET call == lastBroadcast[1]
        IN  /\ \A w \in Range(call.connections) \ call.send_failed :
                   ( \/ w \notin DOMAIN call.subscribers
                     \/ ShouldSendEvent(call.event, call.subscribers[w]) = "True" )
                   => w \in call.sent
            /\ call.returned
            /\ \A S \in call.send_failed :
                   /\ S \notin Range(websocket_connections)
                   /\ S \notin DOMAIN event_subscribers
            /\ \A w \in Range(call.connections) \ call.send_failed :
                   /\ w \in Range(websocket_connections)
                   /\ w \in DOMAIN call.subscribers => w \in DOMAIN event_subscribers

\* =====================================================================
\* Properties of the monitoring task and of shutdown (checked under
\* SpecLoop and SpecPollFair)
\* =====================================================================

Sleeping(pc) == pc \in {"sleep", "sleep_err"}
FailedPoll(kind) == kind \in {"error", "raise"}

\* C11: a poll that ends in an error result or an exception does not end
\* the monitoring loop: the loop goes to sleep, leaves the sleep for the
\* end only when shutdown or cancellation was requested, calls get_status
\* again only after a sleep, and, unless shutdown or cancellation is
\* requested, does call it again.
C11_FailedPollContinues ==
    /\ [][\A m \in LoopMachines :
            /\ ( /\ loopPc[m] = "query" /\ loopPc'[m] # "query"
                 /\ ~cancelRequested[m] /\ FailedPoll(lastPoll'[m]) )
               => Sleeping(loopPc'[m])
            /\ (Sleeping(loopPc[m]) /\ loopPc'[m] = "ended")
               => (shutdown_event[m] \/ cancelRequested[m])
            /\ (loopPc[m] # "query" /\ loopPc'[m] = "query")
               => (Sleeping(loopPc[m]) \/ loopPc[m] = "created")]_vars
    /\ \A m \in LoopMachines :
           (FailedPoll(lastPoll[m]) /\ Sleeping(loopPc[m]))
               ~> (loopPc[m] = "query" \/ shutdown_event[m] \/ cancelRequested[m])

\* After one poll that returned an error result and one that raised, with
\* no shutdown requested, both loops are in get_status again.
C11_Witness ==
    \E m1, m2 \in LoopMachines :
        /\ lastPoll[m1] = "error" /\ loopPc[m1] = "query"
        /\ lastPoll[m2] = "raise" /\ loopPc[m2] = "query"
        /\ ~shutdown_event[m1] /\ ~shutdown_event[m2]

\* C12: once a controller's shutdown() has returned its task is done, and
\* once CNCManager.shutdown() has returned it has awaited the shutdown of
\* every registered controller and no task started through add_controller
\* is still running or polling.
C12_NoLoopAfterShutdown ==
    /\ \A m \in LoopMachines :
           ctrlShutdown[m].stage = "returned" => ~Running(loopPc[m])
    /\ mgrShutdown.pc = "returned" =>
           /\ mgrShutdown.attempted = controllers
           /\ \A m \in Range(controllers) : ~Running(loopPc[m])
           /\ orphanLoops = {}

\* C13: CNCManager.shutdown never ends with a controller's exception; when
\* it returns it has attempted every registered controller in turn,
\* whichever of them raised, its result is a success and the manager is in
\* state SHUTDOWN.
C13_ShutdownIsolation ==
    /\ mgrShutdown.pc # "propagated"
    /\ mgrShutdown.pc = "returned" =>
           /\ mgrShutdown.attempted = controllers
           /\ mgrShutdown.result = Some(SuccessResult(TRUE))
           /\ managerState = "SHUTDOWN"

\* The manager's shutdown has returned after the shutdown of the first
\* controller raised and that of the second returned.
C13_Witness ==
    /\ mgrShutdown.pc = "returned"
    /\ Len(mgrShutdown.attempted) = 2
    /\ ctrlShutdown[mgrShutdown.attempted[1]] =
           [caller |-> "manager", stage |-> "raised"]
    /\ ctrlShutdown[mgrShutdown.attempted[2]] =
           [caller |-> "manager", stage |-> "returned"]

\* ---------------------------------------------------------------------
\* C14: when the controller's initialize() or connect() returns a failure
\* or raises, the add_controller call returns a failure result and leaves
\* the manager as it was: the registered controllers, the history
\* buffers, the controller's callbacks and its monitoring task are what
\* they were before the call.
\* ---------------------------------------------------------------------
HandshakeFailed(call) == call.init # "ok" \/ call.connect # "ok"

C14_FailedAddLeavesManagerUnchanged ==
    [][(addCall' # None /\ addCall' # addCall /\ HandshakeFailed(addCall'[1]))
          => /\ ~addCall'[1].result.success
             /\ UNCHANGED <<controllers, status_history, event_callbacks,
                            monitoring>>]_vars

\* an add_controller call has just failed at connect(), one by a returned
\* failure or one by an exception, for a machine that is not registered
\* while another one is
C14_Witness ==
    /\ addCall # None
    /\ addCall[1].init = "ok"
    /\ addCall[1].connect \in {"fail", "raise"}
    /\ ~addCall[1].result.success
    /\ addCall[1].machine_id \notin Range(controllers)
    /\ Len(controllers) = 1
    /\ event_callbacks[addCall[1].machine_id] = <<>>

\* ---------------------------------------------------------------------
\* C15: get_all_status returns a success result whose dictionary has an
\* entry for exactly the registered machines whose controller has had a
\* successful poll, the entry being the status of the most recent one;
\* a registered machine without a successful poll has no entry.
\* ---------------------------------------------------------------------
PolledMachines == {m \in Range(controllers) : lastGood[m] # None}

StageNames(run) == [i \in 1..Len(run) |-> run[i].stage]

C16_StageErrorShortCircuits ==
    \A i \in 1..Len(stagesRun) :
        stagesRun[i].outcome = "fail"
            => /\ i = Len(stagesRun)
               /\ pipePc = "returned"
               /\ pipeResult # None
               /\ ~pipeResult[1].success
               /\ pipeResult[1].result = None
               /\ report = None
               /\ measurements = <<>>
               /\ \/ /\ stagesRun[i].stage = "preprocess"
                     /\ StageNames(stagesRun) = <<"preprocess">>
                     /\ pipeResult[1].error_code = Some("PREPROCESSING_FAILED")
                  \/ /\ stagesRun[i].stage = "detect"
                     /\ StageNames(stagesRun) = <<"preprocess", "detect">>
                     /\ pipeResult[1].error_code = Some("DEFECT_DETECTION_FAILED")

\* an inspect_part call has returned after its preprocessing succeeded
\* and its detection stage failed
C16_Witness ==
    /\ pipePc = "returned"
    /\ Len(stagesRun) = 2
    /\ stagesRun[2] = [stage |-> "detect", outcome |-> "fail"]
    /\ pipeResult = Some(ErrorResult("DEFECT_DETECTION_FAILED"))

\* ---------------------------------------------------------------------
\* C17: when a safety-critical operation of an MTConnect or OPC-UA
\* controller (start_program, emergency_stop) does not succeed, its
\* caller gets a failing result, not an exception, and emergency_stop
\* has been invoked on the controller: an escalation task was created,
\* or the operation was the emergency stop itself and has put the
\* controller in EMERGENCY_STOP.
\* ---------------------------------------------------------------------
SafetyCriticalOps == {"start_program", "emergency_stop"}

\* the call was made on one of the two controller classes of the package
OnShipped(call) == Protocol(call.machine_id) \in {"MTCONNECT", "OPCUA"}

StopInvoked(call) ==
    \/ call.escalated
    \/ /\ call.op = "emergency_stop"
       /\ ctrlState[call.machine_id] = "EMERGENCY_STOP"

C17_SafetyFailureEscalates ==
    (lastOp # None /\ OnShipped(lastOp[1])
                   /\ lastOp[1].op \in SafetyCriticalOps
                   /\ lastOp[1].outcome # "ok")
        => /\ lastOp[1].outcome = "fail"
           /\ StopInvoked(lastOp[1])

\* ---------------------------------------------------------------------
\* C18: for an MTConnect or OPC-UA controller, emergency_stop() leaves
\* the controller in EMERGENCY_STOP whatever state it was called in; a controller that was in EMERGENCY_STOP is
\* READY or RUNNING again only after a connect(); and a successful
\* connect() called in EMERGENCY_STOP leaves the controller READY.
\* ---------------------------------------------------------------------
OperationalStates == {"READY", "RUNNING"}

C18_EStopRecoversOnlyByConnect ==
    (lastOp # None /\ OnShipped(lastOp[1]))
        => LET call == lastOp[1]
               now  == ctrlState[call.machine_id]
           IN  /\ call.op = "emergency_stop" => now = "EMERGENCY_STOP"
               /\ (call.before = "EMERGENCY_STOP" /\ now \in OperationalStates)
                      => call.op = "connect"
               /\ ( /\ call.before = "EMERGENCY_STOP"
                    /\ call.op = "connect" /\ call.outcome = "ok" )
                      => now = "READY"

\* ---------------------------------------------------------------------
\* C19: an MTConnect or OPC-UA controller is UNINITIALIZED before its
\* first call, READY after
\* a successful connect(), monitoring after a successful
\* start_monitoring(), and UNINITIALIZED again after disconnect().
\* ---------------------------------------------------------------------
C19_ControllerLifecycle ==
    /\ lastOp = None => \A m \in Machines : ctrlState[m] = "UNINITIALIZED"
    /\ (lastOp # None /\ OnShipped(lastOp[1]))
          => LET call == lastOp[1]
                 now  == ctrlState[call.machine_id]
             IN  /\ (call.op = "connect" /\ call.outcome = "ok")
                        => now = "READY"
                 /\ (call.op = "start_monitoring" /\ call.outcome = "ok")
                        => monitoring[call.machine_id]
                 /\ (call.op = "disconnect" /\ call.outcome = "ok")
                        => now = "UNINITIALIZED"

\* ---------------------------------------------------------------------
\* C20: disconnect() of an MTConnect or OPC-UA controller returns a
\* success result, and does not raise, whatever was called before it.
\* ---------------------------------------------------------------------
C20_DisconnectAlwaysSucceeds ==
    (lastOp # None /\ OnShipped(lastOp[1]) /\ lastOp[1].op = "disconnect")
        => lastOp[1].outcome = "ok"

\* =====================================================================
\* Properties of MTConnectController.get_status and the parser (checked
\* under SpecParse)
\* =====================================================================

MappedExecutionValues == {"ACTIVE", "READY", "STOPPED", "INTERRUPTED"}

\* the Execution events of a payload, in document order
ExecutionEvents(payload) ==
    SelectSeq(payload.items, LAMBDA i : i.tag = "Execution")

\* the Execution events that carry a text
ValuedExecutionEvents(payload) ==
    SelectSeq(payload.items, LAMBDA i : i.tag = "Execution" /\ i.text # "")

Last(q) == q[Len(q)]

\* the agent answered the last get_status with HTTP 200
Answered200 ==
    /\ statusResult # None
    /\ readResponse # None
    /\ readResponse[1].http = "200"

\* the monitoring loop, handed this result, goes to its sleep inside the
\* try block: no except clause, no end of the loop
LoopTakesAsSuccess(result) ==
    /\ PollKind(result) = "success"
    /\ AfterPoll(PollKind(result)) = "sleep"

\* ---------------------------------------------------------------------
\* C21 as stated: when the payload's Execution event carries a value
\* other than ACTIVE, READY, STOPPED, INTERRUPTED, get_status succeeds
\* with state UNAVAILABLE.
\* ---------------------------------------------------------------------
C21_UnmappedExecutionIsUnavailable ==
    ( /\ Answered200
      /\ ExecutionEvents(readResponse[1].payload) # <<>>
      /\ Last(ExecutionEvents(readResponse[1].payload)).text
             \notin MappedExecutionValues )
        => /\ statusResult[1].success
           /\ statusResult[1].result[1].state = "UNAVAILABLE"

\* ---------------------------------------------------------------------
\* C21, amended: when the last Execution event that carries a text has a
\* value which, in upper case, is none of ACTIVE, READY, STOPPED,
\* INTERRUPTED, get_status succeeds with state UNAVAILABLE and the
\* monitoring loop goes on to its sleep.
\* ---------------------------------------------------------------------
C21_UnknownExecutionIsUnavailable ==
    ( /\ Answered200
      /\ ValuedExecutionEvents(readResponse[1].payload) # <<>>
      /\ Upper(Last(ValuedExecutionEvents(readResponse[1].payload)).text)
             \notin MappedExecutionValues )
        => /\ statusResult[1].success
           /\ statusResult[1].result[1].state = "UNAVAILABLE"
           /\ LoopTakesAsSuccess(statusResult[1])

\* get_status has returned for a well-formed document whose samples all
\* convert and whose last Execution value is unknown, a known one
\* standing before it
C21_Witness ==
    /\ Answered200
    /\ statusResult[1].success
    /\ LET payload == readResponse[1].payload
       IN  /\ payload.well_formed
           /\ \A i \in 1..Len(payload.items) :
                  payload.items[i].section = "Samples"
                      => ParseFloat(payload.items[i].text) # None
           /\ Len(ValuedExecutionEvents(payload)) = 2
           /\ ValuedExecutionEvents(payload)[1].text = "ACTIVE"
           /\ ValuedExecutionEvents(payload)[2].text = "PROGRAM_COMPLETED"
    /\ statusResult[1].result[1].state = "UNAVAILABLE"

\* ---------------------------------------------------------------------
\* C22: when the payload cannot be parsed (the document is malformed, or
\* a sample's value does not convert to a number), get_status returns a
\* success result whose status has state UNAVAILABLE, and the monitoring
\* loop takes the tick as a successful poll and goes on.
\* ---------------------------------------------------------------------
Unconvertible(item) ==
    /\ item.section = "Samples"
    /\ item.tag \in {"SpindleSpeed", "Feedrate"}
    /\ item.text # ""
    /\ ParseFloat(item.text) = None

ParseFails(payload) ==
    \/ ~payload.well_formed
    \/ \E i \in 1..Len(payload.items) : Unconvertible(payload.items[i])

C22_ParseFailureDegrades ==
    (Answered200 /\ ParseFails(readResponse[1].payload))
        => /\ statusResult[1].success
           /\ statusResult[1].result # None
           /\ statusResult[1].result[1].state = "UNAVAILABLE"
           /\ statusResult[1].error_code = None
           /\ LoopTakesAsSuccess(statusResult[1])

\* get_status has returned for a well-formed document in which a sample
\* that does not convert stands before an Execution event ACTIVE
C22_Witness ==
    /\ Answered200
    /\ LET payload == readResponse[1].payload
       IN  /\ payload.well_formed
           /\ \E i, j \in 1..Len(payload.items) :
                  /\ Unconvertible(payload.items[i])
                  /\ payload.items[j].tag = "Execution"
                  /\ payload.items[j].text = "ACTIVE"
    /\ statusResult[1].success
    /\ statusResult[1].result[1].state = "UNAVAILABLE"

\* ---------------------------------------------------------------------
\* C23: MTConnectController.send_command, for every command, parameter
\* set and controller state, returns a failure with code NOT_SUPPORTED
\* and changes nothing in the controller; NOT_SUPPORTED is not the code
\* OPCUAController.send_command returns for a command it attempted and
\* that failed, nor the one for a missing connection.
\* ---------------------------------------------------------------------
AttemptedAndFailedCodes ==
    { OPCUASendCommand(TRUE, command, parameters, "fail").error_code :
          command \in Commands, parameters \in ParameterSets }

C23_MTConnectSendCommandNotSupported ==
    [][( /\ lastOp' # None
         /\ lastOp' # lastOp
         /\ lastOp'[1].op = "send_command"
         /\ Protocol(lastOp'[1].machine_id) = "MTCONNECT" )
          => /\ ~lastOp'[1].result.success
             /\ lastOp'[1].result.error_code = Some("NOT_SUPPORTED")
             /\ lastOp'[1].result.error_code \notin AttemptedAndFailedCodes
             /\ lastOp'[1].result.error_code
                    # OPCUASendCommand(FALSE, lastOp'[1].command,
                                       lastOp'[1].parameters, "ok").error_code
             /\ UNCHANGED cncVars]_vars

\* send_command has returned on the MTConnect controller while it was in
\* EMERGENCY_STOP and monitored, for a command with parameters
C23_Witness ==
    /\ lastOp # None
    /\ lastOp[1].op = "send_command"
    /\ Protocol(lastOp[1].machine_id) = "MTCONNECT"
    /\ lastOp[1].before = "EMERGENCY_STOP"
    /\ monitoring[lastOp[1].machine_id]
    /\ lastOp[1].command = "SET_FEEDRATE"
    /\ lastOp[1].parameters # None
    /\ lastOp[1].result.error_code = Some("NOT_SUPPORTED")

\* =====================================================================
\* Properties of QualityMeasurement (checked under SpecMeasure)
\* =====================================================================

ViolatesGivenBound(args) ==
    \/ args.tolerance_min # None /\ args.value < args.tolerance_min[1]
    \/ args.tolerance_max # None /\ args.value > args.tolerance_max[1]

\* ---------------------------------------------------------------------
\* C24: a constructed QualityMeasurement has within_tolerance true when
\* no bound was given and false when its value violates a bound that was
\* given, be it the only one; scored, a measurement that violates a
\* given bound costs 0.1 * confidence and makes the result FAIL.
\* ---------------------------------------------------------------------
C24_WithinToleranceFromGivenBounds ==
    qm # None
        => /\ (qmArgs[1].tolerance_min = None /\ qmArgs[1].tolerance_max = None)
                  => qm[1].within_tolerance
           /\ ViolatesGivenBound(qmArgs[1]) => ~qm[1].within_tolerance
           /\ (qmScored # None /\ ViolatesGivenBound(qmArgs[1]))
                  => /\ qmScored[1].overall_score =
                            ScoreOne - qmArgs[1].confidence * 10
                     /\ qmScored[1].inspection_result = "FAIL"

\* ---------------------------------------------------------------------
\* C25: a QualityMeasurement constructed with both bounds has
\* within_tolerance equal to tolerance_min <= value <= tolerance_max,
\* whatever within_tolerance argument it was constructed with, and
\* keeps the object as it is while it is scored.
\* ---------------------------------------------------------------------
C25_BothBoundsDecideWithinTolerance ==
    /\ [](( /\ qm # None
            /\ qmArgs[1].tolerance_min # None
            /\ qmArgs[1].tolerance_max # None )
              => qm[1].within_tolerance =
                     ( /\ qmArgs[1].tolerance_min[1] <= qmArgs[1].value
                       /\ qmArgs[1].value <= qmArgs[1].tolerance_max[1] ))
    /\ [][(qm # None /\ qm' # None) => qm' = qm]_vars

\* a measurement constructed with both bounds, a value above the upper
\* one and within_tolerance=True has been scored
C25_Witness ==
    /\ qm # None
    /\ qmScored # None
    /\ qmArgs[1].tolerance_min = Some(80)
    /\ qmArgs[1].tolerance_max = Some(200)
    /\ qmArgs[1].value = 250
    /\ qmArgs[1].within_tolerance
    /\ ~qm[1].within_tolerance

\* =====================================================================
\* Properties of inspect_part on a clean part (checked under SpecPipeline)
\* =====================================================================

DetectionSucceeded ==
    \E k \in 1..Len(stagesRun) :
        stagesRun[k] = [stage |-> "detect", outcome |-> "ok"]

AllWithinTolerance ==
    \A k \in 1..Len(measurements) : measurements[k].within_tolerance

\* ---------------------------------------------------------------------
\* C26: an inspect_part call whose detection returned zero defects and
\* whose measurements are all within tolerance returns a success result
\* holding a report with overall_score 1.0 and inspection_result PASS.
\* ---------------------------------------------------------------------
C26_CleanPartPasses ==
    ( /\ pipePc = "returned"
      /\ DetectionSucceeded
      /\ defects = <<>>
      /\ AllWithinTolerance )
        => /\ pipeResult # None
           /\ pipeResult[1].success
           /\ pipeResult[1].result # None
           /\ pipeResult[1].result[1].overall_score = ScoreOne
           /\ pipeResult[1].result[1].inspection_result = "PASS"
           /\ pipeResult[1].result[1].defects = <<>>

\* a call returned with no defect and two measurements, both within
\* tolerance
C26_Witness ==
    /\ pipePc = "returned"
    /\ DetectionSucceeded
    /\ defects = <<>>
    /\ Len(measurements) = 2
    /\ AllWithinTolerance
    /\ pipeResult # None
    /\ pipeResult[1].success

\* =====================================================================
\* Properties of OperationResult (checked under SpecResults)
\* =====================================================================

ResultIffSuccess(r) ==
    /\ (r.result # None) <=> r.success
    /\ (r.error # None) <=> ~r.success

\* the OperationResult objects a caller holds in a state
ReturnedResults ==
    (IF statusResult = None THEN {} ELSE {statusResult[1]})
    \cup (IF pipeResult = None THEN {} ELSE {pipeResult[1]})
    \cup (IF addCall = None THEN {} ELSE {addCall[1].result})
    \cup (IF statusCall = None THEN {} ELSE {statusCall[1]})
    \cup (IF lastOp = None THEN {}
          ELSE IF lastOp[1].op = "send_command" THEN {lastOp[1].result}
          ELSE {})

\* ---------------------------------------------------------------------
\* C27: every OperationResult an operation returned holds a result
\* value if and only if success is true, and an error message if and
\* only if success is false.
\* ---------------------------------------------------------------------
C27_ResultIffSuccess ==
    \A r \in ReturnedResults : ResultIffSuccess(r)

\* an operation has returned a failure carrying an error code
C27_Witness ==
    \E r \in ReturnedResults :
        /\ ~r.success
        /\ r.error # None
        /\ r.error_code = Some("DEFECT_DETECTION_FAILED")

\* =====================================================================
\* Properties of _broadcast_event running concurrently with the websocket
\* handlers (checked under SpecBroadcastSteps)
\* =====================================================================

\* the subscribers the call owes the event: connected from the call's
\* start to its return, still open, and let through by their filter
OwedEvent ==
    {w \in bc[1].throughout \cap bc[1].matching : wsState[w] = "open"}

\* ---------------------------------------------------------------------
\* C28: when subscribers connect or disconnect while a broadcast is in
\* progress, the broadcast returns, every subscriber that was connected
\* for its whole duration and whose filter matches has received the
\* event exactly once, and no subscriber has received it twice.
\* ---------------------------------------------------------------------
C28_ConcurrentBroadcastDeliversOnce ==
    (bc # None /\ bc[1].pc = "done")
        => /\ \A w \in OwedEvent : bc[1].received[w] = 1
           /\ \A w \in bc[1].throughout : bc[1].received[w] <= 1

\* =====================================================================
\* Properties of the status callbacks (checked under SpecCallbacks)
\* =====================================================================

\* ---------------------------------------------------------------------
\* C29: on every tick whose get_status succeeded, the loop has called
\* every registered status callback once, in registration order, each
\* with the new status, by the time it goes to sleep, which is before
\* its next get_status begins; a callback that raises does not keep the
\* later ones from being called.
\* ---------------------------------------------------------------------
C29_CallbacksInRegistrationOrder ==
    [][(cbPc = "get_status" /\ cbPc' = "sleep" /\ cbPoll' # None)
          => IF cbPoll'[1].success
             THEN /\ Len(cbCalls') = Len(cbRegistered)
                  /\ \A k \in 1..Len(cbRegistered) :
                         /\ cbCalls'[k].callback = cbRegistered[k]
                         /\ cbCalls'[k].status = cbPoll'[1].result[1]
             ELSE cbCalls' = <<>>]_vars

\* three different callbacks were called on one tick, the first of them
\* raised
C29_Witness ==
    /\ cbPc = "sleep"
    /\ Len(cbCalls) = 3
    /\ cbCalls[1].raised
    /\ cbCalls[1].callback # cbCalls[2].callback
    /\ cbCalls[2].callback # cbCalls[3].callback
    /\ cbCalls[1].callback # cbCalls[3].callback
    /\ cbCalls[3].status.state = "ACTIVE"

\* =====================================================================
\* Properties of a controller's monitoring tasks under concurrent
\* start_monitoring, stop_monitoring and shutdown calls (checked under
\* SpecTasks)
\* =====================================================================

\* the monitoring loops of the controller that are running: created, not
\* ended, and not asked to end
ActiveLoops == {id \in TaskIds : Unfinished(id) /\ id \notin taskCancel}

\* ---------------------------------------------------------------------
\* C30: under every interleaving of start_monitoring, stop_monitoring,
\* add_controller and shutdown calls on one controller, at most one of
\* its monitoring loops is active, no two get_status calls of its loops
\* are in progress together, and a start_monitoring call made while a
\* loop is active returns ALREADY_MONITORING and creates no task.
\* ---------------------------------------------------------------------
C30_TicksStrictlySequential ==
    /\ Cardinality(ActiveLoops) <= 1
    /\ Cardinality({id \in TaskIds : taskPc[id] = "get_status"}) <= 1
    /\ (lastStart # None /\ lastStart[1].loops_before # {})
          => /\ lastStart[1].result.error_code = Some("ALREADY_MONITORING")
             /\ lastStart[1].created = {}

\* =====================================================================
\* Properties of the history buffer when controller objects share a
\* machine id or are added twice (checked under SpecOwnership)
\* =====================================================================

\* ---------------------------------------------------------------------
\* C31: after any sequence of add_controller calls, every entry of the
\* machine's history was polled by the controller object now registered
\* under the machine id; a replaced controller's polls are not appended.
\* ---------------------------------------------------------------------
C31_HistoryOwnedByRegistered ==
    (ownHistory # None /\ registered # None)
        => \A k \in 1..Len(ownHistory[1]) :
               ownHistory[1][k].polled_by = registered[1]

\* ---------------------------------------------------------------------
\* C37: each successful poll of the registered controller appends exactly
\* one entry to the machine's history (the oldest is dropped beyond
\* max_history_size), so that the newest entry is the controller's
\* current_status and no status is in the history twice, also when
\* add_controller was called more than once with the same controller.
\* ---------------------------------------------------------------------
C37_OneEntryPerPoll ==
    [][( /\ lastPollBy' # None
         /\ registered # None
         /\ ownHistory # None
         /\ IF lastPollBy' = None THEN FALSE
            ELSE /\ lastPollBy'[1].success
                 /\ lastPollBy'[1].polled_by = registered[1] )
                 => /\ ownHistory' =
                           OnStatusUpdateOwn(ownHistory, lastPollBy'[1].status)
                    /\ ownHistory'[1][Len(ownHistory'[1])] =
                           objStatus'[registered[1]][1]
                    /\ \A i, j \in 1..Len(ownHistory'[1]) :
                           ownHistory'[1][i] = ownHistory'[1][j] => i = j]_vars

\* =====================================================================
\* Properties of _perform_measurements (checked under SpecPerform)
\* =====================================================================

ReportedTypes ==
    {pmResult[1].result[1].measurements[k].measurement_type :
        k \in 1..Len(pmResult[1].result[1].measurements)}

\* ---------------------------------------------------------------------
\* C32: when the computation of one of the two baseline measurements
\* raises, inspect_part still returns a success result whose report
\* leaves the failed measurement out and holds the other one.
\* ---------------------------------------------------------------------
C32_MeasurementFailuresSkippedIndividually ==
    pmPc = "reported"
        => /\ pmResult[1].success
           /\ pmInput[1].raising = "roughness"
                  => ReportedTypes = {"brightness"}
           /\ pmInput[1].raising = "brightness"
                  => ReportedTypes = {"surface_roughness"}

\* =====================================================================
\* Properties of connect() called again (checked under SpecConnect)
\* =====================================================================

\* ---------------------------------------------------------------------
\* C33: connect() called on a controller that its previous call, a
\* successful connect(), left connected succeeds and leaves the
\* component state as it was, the monitoring loop as it was, and on the
\* variant that keeps a session exactly one session open.
\* ---------------------------------------------------------------------
C33_ConnectIdempotent ==
    (lastConnect # None /\ IF lastConnect = None THEN FALSE ELSE lastConnect[1].again)
        => LET call == lastConnect[1]
           IN  /\ call.outcome = "ok"
               /\ connState[call.variant] = call.state_before
               /\ (call.variant \in connLoop) = call.loop_before
               /\ Cardinality(OpenSessions(call.variant, connOpen)) =
                      IF call.variant = "OPCUA" THEN 1 ELSE 0

\* =====================================================================
\* Properties of OPCUAController.send_command (checked under
\* SpecLifecycle)
\* =====================================================================

\* ---------------------------------------------------------------------
\* C34: on the OPC-UA controller send_command returns success only when
\* the command was dispatched to the machine, that is when the call
\* issued a write for it; a command with no node mapping does not
\* return success.
\* ---------------------------------------------------------------------
C34_SuccessMeansDispatched ==
    ( /\ lastOp # None
      /\ IF lastOp = None THEN FALSE
         ELSE /\ lastOp[1].op = "send_command"
              /\ Protocol(lastOp[1].machine_id) = "OPCUA" )
        => (lastOp[1].result.success => lastOp[1].writes # {})

\* =====================================================================
\* Properties of CNCController.emergency_stop over time (checked under
\* SpecEstopFair)
\* =====================================================================

EmergencyStopCalled(m) ==
    IF lastOp = None THEN FALSE
    ELSE lastOp[1].op = "emergency_stop" /\ lastOp[1].machine_id = m

\* ---------------------------------------------------------------------
\* C35: once emergency_stop() has been called on a controller, its
\* component state eventually is EMERGENCY_STOP and no escalation task is
\* left pending, whether send_command succeeded, returned a failure or
\* raised.
\* ---------------------------------------------------------------------
C35_EmergencyStopEventuallyReached ==
    \A m \in Machines :
        EmergencyStopCalled(m)
            ~> (ctrlState[m] = "EMERGENCY_STOP" /\ escalations[m] = 0)

\* =====================================================================
\* Properties of a failed poll (checked under SpecManager)
\* =====================================================================

\* A tick took place and no poll succeeded in it: the time moved on and
\* no machine has a new last good status.
FailedTick == clock' = clock + 1 /\ lastGood' = lastGood

\* ---------------------------------------------------------------------
\* C36: a tick whose poll fails leaves every controller's current_status,
\* every machine's history and what get_all_status would return
\* unchanged, and calls no status callback.
\* ---------------------------------------------------------------------
C36_FailedPollChangesNothing ==
    [][FailedTick =>
          /\ current_status' = current_status
          /\ status_history' = status_history
          /\ delivered' = delivered
          /\ GetAllStatus(controllers', current_status')
                = GetAllStatus(controllers, current_status)]_vars

\* the most recent tick was a failed poll that came after a successful
\* one, whose status the controller still holds
C36_Witness ==
    /\ clock >= 2
    /\ \E m \in Range(controllers) :
          /\ lastGood[m] # None
          /\ current_status[m] = lastGood[m]
          /\ GetAllStatus(controllers, current_status)[m] = lastGood[m][1]
    /\ \A x \in Machines :
          IF lastGood[x] = None THEN TRUE
          ELSE lastGood[x][1].timestamp < clock - 1

\* ---------------------------------------------------------------------
\* C38: on a tick on which a status callback raises, every callback
\* registered after it is still called on that tick, current_status
\* stays the status just polled, and the loop goes on to its sleep.
\* ---------------------------------------------------------------------
C38_RaisingCallbackIsContained ==
    [][(cbPc = "get_status" /\ cbPc' # "get_status")
          => \A k \in 1..Len(cbCalls') :
                cbCalls'[k].raised
                  => /\ \A j \in (k + 1)..Len(cbRegistered) :
                            /\ j <= Len(cbCalls')
                            /\ cbCalls'[j].callback = cbRegistered[j]
                     /\ cbStatus' = Some(cbCalls'[k].status)
                     /\ cbPc' = "sleep"]_vars

\* a tick on which the first callback raised and a later one returned,
\* after which the loop began its next poll
C38_Witness ==
    /\ cbPc = "get_status"
    /\ Len(cbCalls) >= 2
    /\ cbCalls[1].raised
    /\ ~cbCalls[Len(cbCalls)].raised
    /\ cbStatus = Some(cbCalls[1].status)

\* =====================================================================
\* Properties of inspect_part against the component states (checked
\* under SpecReadiness)
\* =====================================================================

\* ---------------------------------------------------------------------
\* C39: inspect_part on an inspector that is not READY returns
\* COMPONENT_NOT_READY and runs no stage; with the inspector READY and
\* the detector not READY it fails at the detection stage; and once
\* emergency_stop or shutdown has been called on the inspector no call
\* returns a report.
\* ---------------------------------------------------------------------
C39_NoReportUnlessReady ==
    qiCall # None =>
        /\ qiCall[1].state # "READY"
              => /\ qiCall[1].result = ErrorResult("COMPONENT_NOT_READY")
                 /\ qiCall[1].stages = <<>>
        /\ (/\ qiCall[1].state = "READY"
            /\ qiCall[1].detector # "READY"
            /\ qiCall[1].preprocess = "ok")
              => /\ qiCall[1].result = ErrorResult("DEFECT_DETECTION_FAILED")
                 /\ qiCall[1].stages = <<"preprocess", "detect">>
        /\ qiCall[1].stopped => ~qiCall[1].result.success

\* =====================================================================
\* Properties of start, stop, pause and resume (checked under
\* SpecLifecycle)
\* =====================================================================

\* What the last call, a start/stop/pause/resume that wants the state
\* `from` and moves to `to`, did: from `from` it succeeded and the state
\* is `to`; from any other state it returned INVALID_STATE and the state
\* is the one before.
Guarded(from, to) ==
    LET call == lastOp[1]
    IN  IF call.before = from
        THEN /\ call.outcome = "ok"
             /\ call.error_code = None
             /\ ctrlState[call.machine_id] = to
        ELSE /\ call.outcome = "fail"
             /\ call.error_code = Some("INVALID_STATE")
             /\ ctrlState[call.machine_id] = call.before

\* ---------------------------------------------------------------------
\* C40: start() succeeds only from READY and moves to RUNNING, pause()
\* only from RUNNING and moves to PAUSED, resume() only from PAUSED and
\* moves to RUNNING; from any other state each returns INVALID_STATE and
\* leaves the state alone. stop() always succeeds, moves RUNNING to READY
\* and leaves every other state alone.
\* ---------------------------------------------------------------------
C40_LifecycleGuards ==
    IF lastOp = None THEN TRUE
    ELSE CASE lastOp[1].op = "start"  -> Guarded("READY", "RUNNING")
           [] lastOp[1].op = "pause"  -> Guarded("RUNNING", "PAUSED")
           [] lastOp[1].op = "resume" -> Guarded("PAUSED", "RUNNING")
           [] lastOp[1].op = "stop"   ->
                 /\ lastOp[1].outcome = "ok"
                 /\ ctrlState[lastOp[1].machine_id] =
                       IF lastOp[1].before = "RUNNING" THEN "READY"
                       ELSE lastOp[1].before
           [] OTHER -> TRUE

\* stop() was called on a paused controller, which stays paused
C40_Witness ==
    IF lastOp = None THEN FALSE
    ELSE /\ lastOp[1].op = "stop"
         /\ lastOp[1].before = "PAUSED"
         /\ ctrlState[lastOp[1].machine_id] = "PAUSED"

====
